---- MODULE Spec2Model ----
(***************************************************************************)
(* State-machine model of the SVG editor (App.tsx): tree model, selection, *)
(* history with debounced snapshots, drag gesture, import.                 *)
(*                                                                         *)
(* Representation                                                          *)
(*   SvgNode      [id, tag, attrs, children, text]                         *)
(*   attrs        sequence of [k, v] in insertion order (a JS object)      *)
(*   text         <<>> when the field is undefined, <<t>> when defined     *)
(*   a text t     sequence of tokens; the token " " is white space         *)
(*   style value  sequence of segments (split on ';'), each a sequence of  *)
(*                fields (split on ':'), fields already trimmed            *)
(*   transform    sequence of [fn, args]; a number is [n, d] (n/d)         *)
(*   Set<string>  sequence without repetition (JS insertion order)         *)
(***************************************************************************)
EXTENDS Integers, Sequences, FiniteSets, TLC

Null == [null |-> TRUE]

(* ---------------------------- bounds ---------------------------------- *)
MaxHistory == 2
MaxTimerHistory == 3
MaxBurstHistory == 3
MaxDupHistory == 3
MaxStyleHistory == 2
MaxClearHistory == 3
MaxStructHistory == 2
MaxDragHistory == 3
MaxZoom == 125
MaxRotateHistory == 4
MaxTeardownHistory == 3
MaxRegroupHistory == 3
MaxNodes == 5
MaxGroups == 1
MaxBurst == 3
TickMs == 250

(* ------------------------ program constants --------------------------- *)
DebounceMs == 500
DragThreshold == 5

(* ------------------------- sequence helpers --------------------------- *)
Range(s) == {s[i] : i \in 1..Len(s)}

RECURSIVE Flatten(_)
Flatten(ss) == IF ss = <<>> THEN <<>> ELSE Head(ss) \o Flatten(Tail(ss))

IsPrefix(s, t) == Len(s) <= Len(t) /\ SubSeq(t, 1, Len(s)) = s

(* ------------------------- attribute objects -------------------------- *)
AttrHas(attrs, key) == \E i \in 1..Len(attrs) : attrs[i].k = key

AttrIdx(attrs, key) == CHOOSE i \in 1..Len(attrs) : attrs[i].k = key

AttrGet(attrs, key) == attrs[AttrIdx(attrs, key)].v

AttrSet(attrs, key, value) ==
    IF AttrHas(attrs, key)
    THEN [attrs EXCEPT ![AttrIdx(attrs, key)] = [k |-> key, v |-> value]]
    ELSE Append(attrs, [k |-> key, v |-> value])

AttrDel(attrs, key) == SelectSeq(attrs, LAMBDA a : a.k # key)

(* ------------------------------ nodes --------------------------------- *)
TextTag == "#text"

(* obj stands for the identity of the JavaScript object: every object    *)
(* the editor builds is Fresh; the objects of an input whose identity is  *)
(* followed are numbered by TagObjects                                    *)
Fresh == "new"

Elem(id, tag, attrs, children) ==
    [id |-> id, tag |-> tag, attrs |-> attrs, children |-> children, text |-> <<>>,
     obj |-> Fresh]

TextLeaf(id, t) ==
    [id |-> id, tag |-> TextTag, attrs |-> <<>>, children |-> <<>>, text |-> <<t>>,
     obj |-> Fresh]

RECURSIVE cloneNode(_)
cloneNode(node) ==
    [id |-> node.id, tag |-> node.tag, text |-> node.text, obj |-> Fresh,
     attrs |-> [i \in 1..Len(node.attrs) |-> node.attrs[i]],
     children |-> [i \in 1..Len(node.children) |-> cloneNode(node.children[i])]]

(* every node of the subtree, depth first, text leaves included *)
RECURSIVE Nodes(_)
Nodes(node) ==
    <<node>> \o Flatten([i \in 1..Len(node.children) |-> Nodes(node.children[i])])

Ids(node) == [i \in 1..Len(Nodes(node)) |-> Nodes(node)[i].id]

Size(node) == Len(Nodes(node))

(* the tree with its objects numbered k, k+1, ... depth first *)
RECURSIVE TagObjects(_, _)
TagObjects(node, k) ==
    [node EXCEPT
        !.obj = "obj-" \o ToString(k),
        !.children =
            [i \in 1..Len(node.children) |->
                TagObjects(node.children[i],
                    k + 1 + Len(Flatten([j \in 1..(i - 1) |-> Nodes(node.children[j])])))]]

RECURSIVE findNode(_, _)
findNode(node, id) ==
    IF node = Null \/ id = "" THEN Null
    ELSE IF node.id = id THEN node
    ELSE LET found == [i \in 1..Len(node.children) |-> findNode(node.children[i], id)]
             hits == {i \in 1..Len(found) : found[i] # Null}
         IN IF hits = {} THEN Null
            ELSE found[CHOOSE i \in hits : \A j \in hits : i <= j]

RECURSIVE findParent(_, _, _)
findParent(node, targetId, parent) ==
    IF node.id = targetId THEN parent
    ELSE LET found == [i \in 1..Len(node.children) |->
                          findParent(node.children[i], targetId, node)]
             hits == {i \in 1..Len(found) : found[i] # Null}
         IN IF hits = {} THEN Null
            ELSE found[CHOOSE i \in hits : \A j \in hits : i <= j]

(* ------------------------------ numbers ------------------------------- *)
RECURSIVE Gcd(_, _)
Gcd(a, b) == IF b = 0 THEN a ELSE Gcd(b, a % b)

Abs(x) == IF x < 0 THEN -x ELSE x

(* the number n/d in lowest terms; d = 0 stands for NaN *)
Rat(n, d) ==
    IF d = 0 THEN [n |-> 0, d |-> 0]
    ELSE LET g == Gcd(Abs(n), Abs(d))
             s == IF d < 0 THEN -1 ELSE 1
         IN [n |-> (s * n) \div g, d |-> (s * d) \div g]

Num(i) == Rat(i, 1)

(* x || 0 on a number: NaN and 0 give 0 *)
OrZero(x) == IF x.d = 0 THEN Num(0) ELSE x

(* --------------------------- transform codec -------------------------- *)
FirstFn(transform, name) ==
    LET hits == {i \in 1..Len(transform) :
                    transform[i].fn = name /\ Len(transform[i].args) > 0}
    IN IF hits = {} THEN Null
       ELSE transform[CHOOSE i \in hits : \A j \in hits : i <= j]

(* result [hasT, x, y, hasR, r]; hasT/hasR tell whether the field is set *)
parseTransform(transform) ==
    LET t == FirstFn(transform, "translate")
        r == FirstFn(transform, "rotate")
    IN [hasT |-> t # Null,
        x |-> IF t = Null THEN Num(0) ELSE OrZero(t.args[1]),
        y |-> IF t = Null THEN Num(0)
              ELSE IF Len(t.args) >= 2 THEN OrZero(t.args[2]) ELSE Num(0),
        hasR |-> r # Null,
        r |-> IF r = Null THEN Num(0)
              ELSE IF Len(r.args) = 1 THEN OrZero(r.args[1]) ELSE Num(0)]

(* translate: Null or [x, y]; rotate: Null or a number *)
buildTransform(translate, rotate) ==
    (IF translate # Null
     THEN <<[fn |-> "translate", args |-> <<translate.x, translate.y>>]>> ELSE <<>>)
    \o
    (IF rotate # Null THEN <<[fn |-> "rotate", args |-> <<rotate>>]>> ELSE <<>>)

(* --------------------------- style strings ---------------------------- *)
(* the entries of a style string: split(';'), trim, filter(Boolean),     *)
(* split(':'), trim                                                     *)
StyleParts(style) == SelectSeq(style, LAMBDA seg : seg # <<"">>)

getStyleValue(style, key) ==
    LET parts == StyleParts(style)
        hits == {i \in 1..Len(parts) : parts[i][1] = key}
    IN IF hits = {} THEN Null
       ELSE LET found == parts[CHOOSE i \in hits : \A j \in hits : i <= j]
            IN IF Len(found) >= 2 THEN [value |-> found[2]] ELSE Null

(* variant of applyStyleValue that keeps the old entries of key *)
applyStyleValue_KeepOld(style, key, value) ==
    LET kept == SelectSeq(StyleParts(style), LAMBDA e : e[1] # "")
        entries == IF value # "" THEN Append(kept, <<key, value>>) ELSE kept
    IN [i \in 1..Len(entries) |->
          <<entries[i][1],
            IF Len(entries[i]) >= 2 THEN entries[i][2] ELSE "undefined">>]

(* value "" stands for undefined; the result <<>> is the empty string *)
applyStyleValue(style, key, value) ==
    LET kept == SelectSeq(StyleParts(style), LAMBDA e : e[1] # key /\ e[1] # "")
        entries == IF value # "" THEN Append(kept, <<key, value>>) ELSE kept
    IN [i \in 1..Len(entries) |->
          <<entries[i][1],
            IF Len(entries[i]) >= 2 THEN entries[i][2] ELSE "undefined">>]

StyleOf(attrs) == IF AttrHas(attrs, "style") THEN AttrGet(attrs, "style") ELSE <<>>

TransformOf(attrs) ==
    IF AttrHas(attrs, "transform") THEN AttrGet(attrs, "transform") ELSE <<>>

getAttrOrStyle(node, key) ==
    IF node = Null THEN Null
    ELSE IF AttrHas(node.attrs, key) THEN [value |-> AttrGet(node.attrs, key)]
    ELSE getStyleValue(StyleOf(node.attrs), key)

(* --------------------------- tree mutation ---------------------------- *)
(* the callback of updateAttribute / updateAttributeWithoutHistory *)
MutateAttr(node, key, value) ==
    LET a1 == IF key = "fill" \/ key = "stroke"
              THEN LET styleValue == applyStyleValue(StyleOf(node.attrs), key, value)
                   IN IF styleValue # <<>>
                      THEN AttrSet(node.attrs, "style", styleValue)
                      ELSE AttrDel(node.attrs, "style")
              ELSE node.attrs
        a2 == IF value # "" THEN AttrSet(a1, key, value) ELSE AttrDel(a1, key)
    IN [node EXCEPT !.attrs = a2]

(* the callback of updateText *)
MutateText(node, value) ==
    IF node.tag = TextTag THEN [node EXCEPT !.text = <<value>>]
    ELSE [node EXCEPT !.children =
             [i \in 1..Len(node.children) |->
                IF node.children[i].tag = TextTag
                THEN [node.children[i] EXCEPT !.text = <<value>>, !.obj = Fresh]
                ELSE node.children[i]]]

(* the callback of updateRotation *)
MutateRotation(node, angle) ==
    LET parsed == parseTransform(TransformOf(node.attrs))
        newTransform == buildTransform(
            IF parsed.hasT THEN [x |-> parsed.x, y |-> parsed.y] ELSE Null, angle)
    IN [node EXCEPT !.attrs =
           IF newTransform # <<>> THEN AttrSet(node.attrs, "transform", newTransform)
           ELSE AttrDel(node.attrs, "transform")]

(* the callback of groupSelected: replace the first child with id firstId *)
MutateGroup(p, firstId, newGroup) ==
    LET hits == {i \in 1..Len(p.children) : p.children[i].id = firstId}
    IN IF hits = {} THEN p
       ELSE [p EXCEPT !.children[CHOOSE i \in hits : \A j \in hits : i <= j] = newGroup]

(* variant of the callback that puts the group's children last *)
MutateUngroup_AtEnd(p, firstId, kids) ==
    LET hits == {i \in 1..Len(p.children) : p.children[i].id = firstId}
    IN IF hits = {} \/ Len(kids) = 0 THEN p
       ELSE LET index == CHOOSE i \in hits : \A j \in hits : i <= j
            IN [p EXCEPT !.children =
                   SubSeq(p.children, 1, index - 1)
                   \o SubSeq(p.children, index + 1, Len(p.children))
                   \o [i \in 1..Len(kids) |-> cloneNode(kids[i])]]

(* the callback of ungroupSelected: splice the group's children in its place *)
MutateUngroup(p, firstId, kids) ==
    LET hits == {i \in 1..Len(p.children) : p.children[i].id = firstId}
    IN IF hits = {} \/ Len(kids) = 0 THEN p
       ELSE LET index == CHOOSE i \in hits : \A j \in hits : i <= j
            IN [p EXCEPT !.children =
                   SubSeq(p.children, 1, index - 1)
                   \o [i \in 1..Len(kids) |-> cloneNode(kids[i])]
                   \o SubSeq(p.children, index + 1, Len(p.children))]

(* a mutate callback as data: m.kind names the call site *)
Mutate(m, node) ==
    CASE m.kind = "attr" -> MutateAttr(node, m.key, m.value)
      [] m.kind = "text" -> MutateText(node, m.value)
      [] m.kind = "rotate" -> MutateRotation(node, m.angle)
      [] m.kind = "transform" ->
            [node EXCEPT !.attrs = AttrSet(node.attrs, "transform", m.value)]
      [] m.kind = "push" -> [node EXCEPT !.children = Append(node.children, m.node)]
      [] m.kind = "group" -> MutateGroup(node, m.firstId, m.newGroup)
      [] m.kind = "ungroup" -> MutateUngroup(node, m.firstId, m.kids)

RECURSIVE updateNode(_, _, _)
updateNode(node, id, m) ==
    IF node.id = id THEN Mutate(m, cloneNode(node))
    ELSE LET next == cloneNode(node)
         IN [next EXCEPT !.children =
                [i \in 1..Len(next.children) |-> updateNode(next.children[i], id, m)]]

(* ids is a set of ids *)
RECURSIVE updateMultipleNodes(_, _, _)
updateMultipleNodes(node, ids, m) ==
    LET cloned == cloneNode(node)
        next == IF node.id \in ids THEN Mutate(m, cloned) ELSE cloned
    IN [next EXCEPT !.children =
           [i \in 1..Len(next.children) |->
              updateMultipleNodes(next.children[i], ids, m)]]

RECURSIVE removeNode(_, _)
removeNode(node, id) ==
    IF node.id = id THEN Null
    ELSE LET next == cloneNode(node)
             kept == SelectSeq(next.children, LAMBDA c : c.id # id)
         IN [next EXCEPT !.children = [i \in 1..Len(kept) |-> removeNode(kept[i], id)]]

RECURSIVE removeMultipleNodes(_, _)
removeMultipleNodes_Shallow(node, ids) ==
    IF node.id \in ids THEN Null
    ELSE LET next == cloneNode(node)
         IN [next EXCEPT !.children = SelectSeq(next.children, LAMBDA c : c.id \notin ids)]

removeMultipleNodes(node, ids) ==
    IF node.id \in ids THEN Null
    ELSE LET next == cloneNode(node)
             kept == SelectSeq(next.children, LAMBDA c : c.id \notin ids)
         IN [next EXCEPT !.children =
                [i \in 1..Len(kept) |-> removeMultipleNodes(kept[i], ids)]]

RECURSIVE assignIds(_, _, _)
assignIds(n, baseId, newId) ==
    LET childId == IF n.id = baseId THEN newId ELSE n.id \o "-copy"
    IN [n EXCEPT !.id = childId, !.obj = Fresh,
                 !.attrs = AttrSet(n.attrs, "data-id", childId),
                 !.children = [i \in 1..Len(n.children) |->
                                  assignIds(n.children[i], baseId, newId)]]

(* counter is 0 when newId is built, so the suffix is always "-copy" *)
assignNewIds(node, baseId) ==
    LET counter == 0
        newId == baseId \o "-copy" \o (IF counter > 0 THEN "-" \o ToString(counter) ELSE "")
    IN assignIds(node, baseId, newId)

(* element nodes reachable through element nodes *)
RECURSIVE getAllNodes(_)
getAllNodes(node) ==
    <<node>> \o Flatten([i \in 1..Len(node.children) |->
                            IF node.children[i].tag # TextTag
                            THEN getAllNodes(node.children[i]) ELSE <<>>])

RECURSIVE getAllNodeIds(_, _)
getAllNodeIds(node, rootId) ==
    (IF node.id # rootId /\ node.tag # TextTag THEN <<node.id>> ELSE <<>>)
    \o Flatten([i \in 1..Len(node.children) |-> getAllNodeIds(node.children[i], rootId)])

getAllSelectableIds(tree) == getAllNodeIds(tree, tree.id)

RECURSIVE getFirstText(_)
getFirstText(node) ==
    IF node = Null THEN Null
    ELSE IF node.tag = TextTag THEN [value |-> node.text]
    ELSE LET found == [i \in 1..Len(node.children) |-> getFirstText(node.children[i])]
             hits == {i \in 1..Len(found) : found[i] # Null}
         IN IF hits = {} THEN Null
            ELSE found[CHOOSE i \in hits : \A j \in hits : i <= j]

(* ------------------------- import and export -------------------------- *)
(* A parsed document is a DOM tree: an element is [tag, attrs, kids], a   *)
(* text node is [chars]; NoSvg stands for input without an <svg> element. *)
DomElem(tag, attrs, kids) == [tag |-> tag, attrs |-> attrs, kids |-> kids]

DomText(chars) == [chars |-> chars]

IsDomElem(n) == "tag" \in DOMAIN n

A(k, v) == [k |-> k, v |-> v]

RECURSIVE Trim(_)
Trim(chars) ==
    IF chars = <<>> THEN <<>>
    ELSE IF Head(chars) = " " THEN Trim(Tail(chars))
    ELSE IF chars[Len(chars)] = " " THEN Trim(SubSeq(chars, 1, Len(chars) - 1))
    ELSE chars

(* walk(el) with the shared counter threaded through: [node, counter] *)
RECURSIVE walk(_, _)
RECURSIVE walkChildren(_, _, _)
walk(el, counter) ==
    LET dataId == IF AttrHas(el.attrs, "data-id") THEN AttrGet(el.attrs, "data-id") ELSE ""
        given == IF dataId # "" THEN [value |-> dataId]
                 ELSE IF AttrHas(el.attrs, "id") THEN [value |-> AttrGet(el.attrs, "id")]
                 ELSE Null
        c1 == IF given = Null THEN counter + 1 ELSE counter
        id == IF given = Null THEN "node-" \o ToString(c1) ELSE given.value
        attrs == AttrSet(el.attrs, "data-id", id)
        kids == walkChildren(el.kids, c1, <<>>)
    IN [node |-> Elem(id, el.tag, attrs, kids.nodes), counter |-> kids.counter]

walkChildren(kids, counter, acc) ==
    IF kids = <<>> THEN [nodes |-> acc, counter |-> counter]
    ELSE LET child == Head(kids)
         IN IF IsDomElem(child)
            THEN LET w == walk(child, counter)
                 IN walkChildren(Tail(kids), w.counter, Append(acc, w.node))
            ELSE LET textContent == Trim(child.chars)
                 IN IF textContent # <<>>
                    THEN walkChildren(Tail(kids), counter + 1,
                             Append(acc, TextLeaf("text-" \o ToString(counter + 1),
                                                  textContent)))
                    ELSE walkChildren(Tail(kids), counter, acc)

(* doc is the sanitized, parsed input: a DOM svg element or NoSvg *)
NoSvg == Null

parseSvgString(doc) == IF doc = NoSvg THEN Null ELSE walk(doc, 0).node

(* the markup as a flat sequence of items: open tag, text token, close tag *)
TextItems(node) ==
    IF node.text = <<>> THEN <<>>
    ELSE [i \in 1..Len(node.text[1]) |-> [item |-> "text", tok |-> node.text[1][i]]]

RECURSIVE serializeNode(_)
serializeNode(node) ==
    IF node.tag = TextTag THEN TextItems(node)
    ELSE <<[item |-> "open", tag |-> node.tag,
            attrs |-> SelectSeq(node.attrs, LAMBDA a : a.k # "data-id")]>>
         \o TextItems(node)
         \o Flatten([i \in 1..Len(node.children) |-> serializeNode(node.children[i])])
         \o <<[item |-> "close", tag |-> node.tag]>>

(* the text token whose characters spell an empty rect element; in the    *)
(* input it is written with entities (&lt;rect/&gt;)                      *)
MarkupToken == "<rect/>"

(* What DOMPurify.sanitize and DOMParser.parseFromString build from       *)
(* serialized markup: characters that spell an element are an element,    *)
(* text that runs on is one text node. readKids reads the items from      *)
(* position i up to the close tag of the enclosing element.               *)
RECURSIVE readKids(_, _, _)
readKids(items, i, acc) ==
    IF i > Len(items) \/ items[i].item = "close" THEN [kids |-> acc, next |-> i]
    ELSE IF items[i].item = "open"
    THEN LET inner == readKids(items, i + 1, <<>>)
         IN readKids(items, inner.next + 1,
                     Append(acc, DomElem(items[i].tag, items[i].attrs, inner.kids)))
    ELSE IF items[i].tok = MarkupToken
    THEN readKids(items, i + 1, Append(acc, DomElem("rect", <<>>, <<>>)))
    ELSE IF acc # <<>> /\ ~IsDomElem(acc[Len(acc)])
    THEN readKids(items, i + 1,
                  [acc EXCEPT ![Len(acc)] = DomText(Append(@.chars, items[i].tok))])
    ELSE readKids(items, i + 1, Append(acc, DomText(<<items[i].tok>>)))

(* the document read back from serialized markup *)
readMarkup(items) ==
    LET top == readKids(items, 1, <<>>).kids
    IN IF top # <<>> /\ IsDomElem(top[1]) /\ top[1].tag = "svg" THEN top[1] ELSE NoSvg

(* ------------------------------ inputs -------------------------------- *)
(* <svg><rect id="r1" width="10"/></svg> *)
DocOne ==
    DomElem("svg", <<>>, <<DomElem("rect", <<A("id", "r1"), A("width", "10")>>, <<>>)>>)

(* <svg><rect id="r1"/><rect id="r2"/></svg> *)
DocTwo ==
    DomElem("svg", <<>>, <<DomElem("rect", <<A("id", "r1")>>, <<>>),
                           DomElem("rect", <<A("id", "r2")>>, <<>>)>>)

(* <svg><g id="g1"> <text id="t1">hi</text></g></svg> *)
DocText ==
    DomElem("svg", <<>>,
        <<DomElem("g", <<A("id", "g1")>>,
            <<DomText(<<" ">>),
              DomElem("text", <<A("id", "t1")>>, <<DomText(<<"hi">>)>>)>>)>>)

(* <svg><text id="t1">hi</text></svg> *)
DocLabel ==
    DomElem("svg", <<>>, <<DomElem("text", <<A("id", "t1")>>, <<DomText(<<"hi">>)>>)>>)

(* <svg><g id="g1">hi<rect id="r1"/></g></svg> *)
DocGroupLeaf ==
    DomElem("svg", <<>>,
        <<DomElem("g", <<A("id", "g1")>>,
            <<DomText(<<"hi">>), DomElem("rect", <<A("id", "r1")>>, <<>>)>>)>>)

(* <svg/> *)
DocBare == DomElem("svg", <<>>, <<>>)

(* style attributes: none, style="", "fill: #0000ff",                    *)
(* "stroke: #000000; fill: #0000ff", "fill; ; :x; fill: #0000ff", "fill:", *)
(* "cursor: url(a:b)"                                                      *)
StyleAttrs ==
    { <<>>,
      <<A("style", <<>>)>>,
      <<A("style", << <<"fill", "#0000ff">> >>)>>,
      <<A("style", << <<"stroke", "#000000">>, <<"fill", "#0000ff">> >>)>>,
      <<A("style", << <<"fill">>, <<"">>, <<"", "x">>, <<"fill", "#0000ff">> >>)>>,
      <<A("style", << <<"fill", "">> >>)>>,
      <<A("style", << <<"cursor", "url(a", "b)">> >>)>> }

(* <svg><rect id="r1" style=... fill=.../></svg> *)
StyleDocs ==
    { DomElem("svg", <<>>,
          <<DomElem("rect", <<A("id", "r1")>> \o st \o bare, <<>>)>>) :
        st \in StyleAttrs, bare \in { <<>>, <<A("fill", "#00ff00")>>, <<A("fill", "")>> } }

(* ------------------------------- state -------------------------------- *)
VARIABLES
    svgTree,          \* useState svgTree: a node or Null
    latestTreeRef,    \* useRef latestTreeRef
    selectedIds,      \* useState selectedIds: ids in insertion order
    error,            \* useState error: "" when null
    history,          \* useState history: sequence of snapshots
    historyIndex,     \* useState historyIndex, -1 when empty
    dragState,        \* useState dragState: Null or [id, startX, startY, baseTransform]
    hasDraggedRef,    \* useRef hasDraggedRef
    mouseDownPosRef,  \* useRef mouseDownPosRef: Null or [x, y]
    zoom,             \* useState zoom, in hundredths
    timer,            \* historySaveTimeoutRef: the pending timeout, the time left
                      \* and the history/historyIndex its callback closed over
    pointer,          \* the mouse: [phase, node, x, y, far]; far: it has been more
                      \* than DragThreshold away from the press position
    clock,            \* Date.now(), advanced by every use
    fillColor,        \* useState fillColor: the value shown by the fill picker
    strokeColor,      \* useState strokeColor: the value shown by the stroke picker
    prevSelectedIdsRef, \* useRef prevSelectedIdsRef: the selection last synced, as a set
    mounted,          \* the App component is mounted
    strays,           \* timeouts still running that historySaveTimeoutRef no longer holds
    fnIn,             \* the arguments of a tree function applied on its own, or Null
    fnOut,            \* [value |-> its result], or Null before the call
    lastOp,           \* the handler that ran last and its arguments
    gEdit,            \* history variable: the last committed edit, [phase, pre, post]
    gBurst,           \* history variable: the running burst of coalesced edits
    gFresh,           \* history variable: imported and not edited since
    gScn,             \* history variable: progress of the two-rectangle scenario
    gLast             \* history variable: the tree of the last coalesced edit still pending

vars == <<svgTree, latestTreeRef, selectedIds, error, history, historyIndex,
          dragState, hasDraggedRef, mouseDownPosRef, zoom, timer, pointer, clock,
          fillColor, strokeColor, prevSelectedIdsRef, mounted, strays,
          fnIn, fnOut, lastOp, gEdit, gBurst, gFresh, gScn, gLast>>

ghostVars == <<gEdit, gBurst, gFresh, gScn, gLast>>

treeVars == <<svgTree, latestTreeRef>>
histVars == <<history, historyIndex>>
dragVars == <<dragState, hasDraggedRef, mouseDownPosRef>>

DefaultFill == "#0ea5e9"

DefaultStroke == "#0f172a"

NoTimer == [pending |-> FALSE, remaining |-> 0, hist |-> <<>>, idx |-> -1]

IdlePointer == [phase |-> "idle", node |-> "", x |-> 0, y |-> 0, far |-> FALSE]

(* eff: the handler passed its guards and acted *)
Op(name, a, b, eff) == [op |-> name, a |-> a, b |-> b, eff |-> eff]

InSel(id) == id \in Range(selectedIds)

(* variant of the toggle that has no delete branch *)
SelToggle_AddOnly(sel, id) == IF id \in Range(sel) THEN sel ELSE Append(sel, id)

SelToggle(sel, id) ==
    IF id \in Range(sel) THEN SelectSeq(sel, LAMBDA x : x # id) ELSE Append(sel, id)

(* variant of the add that deletes an id that is present *)
SelAdd_Toggle(sel, id) == SelToggle(sel, id)

SelAdd(sel, id) == IF id \in Range(sel) THEN sel ELSE Append(sel, id)

(* new Set(array): first occurrences, in order *)
RECURSIVE SetOf(_)
SetOf(ids) ==
    IF ids = <<>> THEN <<>>
    ELSE LET init == SetOf(SubSeq(ids, 1, Len(ids) - 1))
         IN SelAdd(init, ids[Len(ids)])

(* variant of saveToHistory that slices one entry short: slice(0, i) *)
saveToHistory_SliceShort(h, i, tree) ==
    LET newHistory == Append(SubSeq(h, 1, i), cloneNode(tree))
    IN [history |-> newHistory, historyIndex |-> Len(newHistory) - 1]

(* saveToHistory as created in a render that saw (h, i) *)
saveToHistory(h, i, tree) ==
    LET newHistory == Append(SubSeq(h, 1, i + 1), cloneNode(tree))
    IN [history |-> newHistory, historyIndex |-> Len(newHistory) - 1]

(* updateTreeWithHistory(newTree), newTree not null *)
UpdateTreeWithHistory(newTree) ==
    /\ history' = saveToHistory(history, historyIndex, newTree).history
    /\ historyIndex' = saveToHistory(history, historyIndex, newTree).historyIndex
    /\ svgTree' = newTree
    /\ latestTreeRef' = newTree

NoEdit == [phase |-> "none", pre |-> <<>>, post |-> <<>>]

NoBurst == [n |-> 0, fired |-> FALSE, h0 |-> <<>>, i0 |-> -1, key |-> "", value |-> "",
            elapsed |-> 0]

InitEditor ==
    /\ svgTree = Null
    /\ latestTreeRef = Null
    /\ selectedIds = <<>>
    /\ error = ""
    /\ history = <<>>
    /\ historyIndex = -1
    /\ dragState = Null
    /\ hasDraggedRef = FALSE
    /\ mouseDownPosRef = Null
    /\ zoom = 100
    /\ timer = NoTimer
    /\ pointer = IdlePointer
    /\ clock = 1
    /\ fillColor = DefaultFill
    /\ strokeColor = DefaultStroke
    /\ prevSelectedIdsRef = {}
    /\ lastOp = Op("init", "", "", TRUE)
    /\ gEdit = NoEdit
    /\ gBurst = NoBurst
    /\ gFresh = FALSE
    /\ gScn = <<>>
    /\ gLast = Null
    /\ mounted = TRUE
    /\ strays = 0

Init == InitEditor /\ fnIn = Null /\ fnOut = Null

(* ------------------------------ import -------------------------------- *)
HandleSvgInput_KeepRef(doc) ==
    LET tree == parseSvgString(doc)
    IN /\ IF tree = Null
          THEN /\ error' = "No <svg> tag found. Paste a valid SVG."
               /\ svgTree' = Null
               /\ latestTreeRef' = latestTreeRef
               /\ selectedIds' = <<>>
               /\ history' = <<>>
               /\ historyIndex' = -1
          ELSE /\ error' = ""
               /\ history' = <<cloneNode(tree)>>
               /\ historyIndex' = 0
               /\ svgTree' = tree
               /\ latestTreeRef' = tree
               /\ selectedIds' = <<tree.id>>
       /\ lastOp' = Op("import", IF tree = Null THEN "" ELSE tree.id, "", tree # Null)
       /\ UNCHANGED <<dragVars, zoom, timer, pointer, clock>>

HandleSvgInput(doc) ==
    LET tree == parseSvgString(doc)
    IN /\ IF tree = Null
          THEN /\ error' = "No <svg> tag found. Paste a valid SVG."
               /\ svgTree' = Null
               /\ latestTreeRef' = Null
               /\ selectedIds' = <<>>
               /\ history' = <<>>
               /\ historyIndex' = -1
          ELSE /\ error' = ""
               /\ history' = <<cloneNode(tree)>>
               /\ historyIndex' = 0
               /\ svgTree' = tree
               /\ latestTreeRef' = tree
               /\ selectedIds' = <<tree.id>>
       /\ lastOp' = Op("import", IF tree = Null THEN "" ELSE tree.id, "", tree # Null)
       /\ UNCHANGED <<dragVars, zoom, timer, pointer, clock>>

(* ---------------------------- undo / redo ----------------------------- *)
(* variant of undo that goes back to the first snapshot *)
Undo_ToFirst ==
    /\ IF historyIndex > 0
       THEN /\ historyIndex' = 0
            /\ svgTree' = cloneNode(history[1])
            /\ latestTreeRef' = svgTree'
       ELSE UNCHANGED <<historyIndex, treeVars>>
    /\ lastOp' = Op("undo", "", "", historyIndex > 0)
    /\ UNCHANGED <<selectedIds, error, history, dragVars, zoom, timer, pointer, clock>>

Undo ==
    /\ IF historyIndex > 0
       THEN /\ historyIndex' = historyIndex - 1
            /\ svgTree' = cloneNode(history[historyIndex - 1 + 1])
            /\ latestTreeRef' = svgTree'
       ELSE UNCHANGED <<historyIndex, treeVars>>
    /\ lastOp' = Op("undo", "", "", historyIndex > 0)
    /\ UNCHANGED <<selectedIds, error, history, dragVars, zoom, timer, pointer, clock>>

Redo ==
    /\ IF historyIndex < Len(history) - 1
       THEN /\ historyIndex' = historyIndex + 1
            /\ svgTree' = cloneNode(history[historyIndex + 1 + 1])
            /\ latestTreeRef' = svgTree'
       ELSE UNCHANGED <<historyIndex, treeVars>>
    /\ lastOp' = Op("redo", "", "", historyIndex < Len(history) - 1)
    /\ UNCHANGED <<selectedIds, error, history, dragVars, zoom, timer, pointer, clock>>

(* ----------------------------- selection ------------------------------ *)
(* Math.sqrt(dx * dx + dy * dy) > 5 *)
Beyond(dx, dy) == dx * dx + dy * dy > DragThreshold * DragThreshold

(* wasDragging of handleNodeClick for a click at (x, y) *)
wasDragging(x, y) ==
    IF hasDraggedRef THEN TRUE
    ELSE IF mouseDownPosRef # Null
    THEN Beyond(x - mouseDownPosRef.x, y - mouseDownPosRef.y)
    ELSE FALSE

(* variant of handleNodeClick whose plain branch replaces the selection *)
handleNodeClick_ClearOthers(nodeId, x, y, mod) ==
    IF svgTree = Null \/ nodeId = svgTree.id
    THEN UNCHANGED <<selectedIds, hasDraggedRef, mouseDownPosRef>>
    ELSE /\ mouseDownPosRef' = Null
         /\ hasDraggedRef' = FALSE
         /\ selectedIds' =
                 IF wasDragging(x, y) THEN selectedIds
                 ELSE IF mod = "ctrl" THEN SelToggle(selectedIds, nodeId)
                 ELSE IF mod = "shift" THEN SelAdd(selectedIds, nodeId)
                 ELSE IF InSel(nodeId) THEN <<>> ELSE <<nodeId>>

(* handleNodeClick(nodeId, e) with e.clientX = x, e.clientY = y *)
handleNodeClick(nodeId, x, y, mod) ==
    IF svgTree = Null \/ nodeId = svgTree.id
    THEN UNCHANGED <<selectedIds, hasDraggedRef, mouseDownPosRef>>
    ELSE /\ mouseDownPosRef' = Null
         /\ hasDraggedRef' = FALSE
         /\ selectedIds' =
                 IF wasDragging(x, y) THEN selectedIds
                 ELSE IF mod = "ctrl" THEN SelToggle(selectedIds, nodeId)
                 ELSE IF mod = "shift" THEN SelAdd(selectedIds, nodeId)
                 ELSE SelToggle(selectedIds, nodeId)

(* the click event that follows a press and release on the same element *)
Click(mod) ==
    /\ pointer.phase = "up"
    /\ handleNodeClick(pointer.node, pointer.x, pointer.y, mod)
    /\ pointer' = IdlePointer
    /\ lastOp' = Op("click", pointer.node, mod,
                 svgTree # Null /\ pointer.node # svgTree.id
                 /\ ~wasDragging(pointer.x, pointer.y))
    /\ UNCHANGED <<treeVars, error, histVars, dragState, zoom, timer, clock>>

(* onSelect of the element tree view *)
TreeSelect(id, multi) ==
    /\ svgTree # Null
    /\ id \in {n.id : n \in Range(getAllNodes(svgTree))}
    /\ selectedIds' = IF multi THEN SelToggle(selectedIds, id) ELSE <<id>>
    /\ lastOp' = Op("treeSelect", id, IF multi THEN "ctrl" ELSE "plain", TRUE)
    /\ UNCHANGED <<treeVars, error, histVars, dragVars, zoom, timer, pointer, clock>>

(* variant of areAllSelected that asks for the selection to be the full set *)
areAllSelected_Exact ==
    IF svgTree = Null \/ Len(selectedIds) = 0 THEN FALSE
    ELSE LET allIds == getAllSelectableIds(svgTree)
         IN Len(allIds) > 0 /\ Range(allIds) = Range(selectedIds)

areAllSelected ==
    IF svgTree = Null \/ Len(selectedIds) = 0 THEN FALSE
    ELSE LET allIds == getAllSelectableIds(svgTree)
         IN Len(allIds) > 0 /\ \A i \in 1..Len(allIds) : InSel(allIds[i])

SelectAll ==
    /\ IF svgTree = Null THEN UNCHANGED selectedIds
       ELSE selectedIds' = IF areAllSelected THEN <<>>
                           ELSE SetOf(getAllSelectableIds(svgTree))
    /\ lastOp' = Op("selectAll", IF lastOp.op = "selectAll" THEN "again" ELSE "first", "",
                 svgTree # Null)
    /\ UNCHANGED <<treeVars, error, histVars, dragVars, zoom, timer, pointer, clock>>

(* --------------------------- pointer gesture -------------------------- *)
PressPos == [x |-> 0, y |-> 0]

MovePos == {[x |-> 3, y |-> 4], [x |-> 6, y |-> 0]}

(* onMouseDown of a rendered element *)
MouseDown(node) ==
    /\ pointer.phase = "idle"
    /\ svgTree # Null
    /\ node \in Range(getAllNodes(svgTree))
    /\ pointer' = [phase |-> "down", node |-> node.id, x |-> PressPos.x, y |-> PressPos.y,
                    far |-> FALSE]
    /\ IF node.tag = "svg" THEN UNCHANGED dragVars
       ELSE /\ hasDraggedRef' = FALSE
            /\ mouseDownPosRef' = PressPos
            /\ dragState' =
                 IF InSel(node.id)
                 THEN [id |-> node.id, startX |-> PressPos.x, startY |-> PressPos.y,
                       baseTransform |-> TransformOf(node.attrs)]
                 ELSE dragState
    /\ lastOp' = Op("mouseDown", node.id, "", node.tag # "svg")
    /\ UNCHANGED <<treeVars, selectedIds, error, histVars, zoom, timer, clock>>

(* variant of handlePointerMove that appends to the node's current transform *)
handlePointerMove_Accumulate(pos) ==
    IF dragState = Null THEN UNCHANGED <<treeVars, hasDraggedRef>>
    ELSE LET dx == pos.x - dragState.startX
             dy == pos.y - dragState.startY
             dragged == hasDraggedRef \/ Beyond(dx, dy)
             transform == TransformOf(findNode(svgTree, dragState.id).attrs)
                 \o <<[fn |-> "translate",
                       args |-> <<Rat(dx * 100, zoom), Rat(dy * 100, zoom)>>]>>
             next == updateNode(svgTree, dragState.id,
                                [kind |-> "transform", value |-> transform])
         IN /\ hasDraggedRef' = dragged
            /\ IF dragged /\ svgTree # Null
               THEN svgTree' = next /\ latestTreeRef' = next
               ELSE UNCHANGED treeVars

(* handlePointerMove with e.clientX = pos.x, e.clientY = pos.y *)
handlePointerMove(pos) ==
    IF dragState = Null THEN UNCHANGED <<treeVars, hasDraggedRef>>
    ELSE LET dx == pos.x - dragState.startX
             dy == pos.y - dragState.startY
             dragged == hasDraggedRef \/ Beyond(dx, dy)
             transform == dragState.baseTransform
                 \o <<[fn |-> "translate",
                       args |-> <<Rat(dx * 100, zoom), Rat(dy * 100, zoom)>>]>>
             next == updateNode(svgTree, dragState.id,
                                [kind |-> "transform", value |-> transform])
         IN /\ hasDraggedRef' = dragged
            /\ IF dragged /\ svgTree # Null
               THEN svgTree' = next /\ latestTreeRef' = next
               ELSE UNCHANGED treeVars

MouseMove(pos) ==
    /\ pointer.phase = "down"
    /\ pointer' = [pointer EXCEPT !.x = pos.x, !.y = pos.y,
                                  !.far = @ \/ Beyond(pos.x - PressPos.x, pos.y - PressPos.y)]
    /\ handlePointerMove(pos)
    /\ lastOp' = Op("mouseMove", "", "", dragState # Null /\ hasDraggedRef')
    /\ UNCHANGED <<selectedIds, error, histVars, dragState, mouseDownPosRef, zoom,
                   timer, clock>>

(* variant of handlePointerUp without setDragState(null) *)
handlePointerUp_KeepDragState ==
    IF dragState = Null THEN UNCHANGED <<treeVars, histVars, dragState>>
    ELSE /\ IF hasDraggedRef /\ latestTreeRef # Null
            THEN UpdateTreeWithHistory(latestTreeRef)
            ELSE /\ UNCHANGED histVars
                 /\ IF svgTree = Null THEN UNCHANGED treeVars
                    ELSE LET next == updateNode(svgTree, dragState.id,
                                        [kind |-> "transform",
                                         value |-> dragState.baseTransform])
                         IN svgTree' = next /\ latestTreeRef' = next
         /\ dragState' = dragState

handlePointerUp ==
    IF dragState = Null THEN UNCHANGED <<treeVars, histVars, dragState>>
    ELSE /\ IF hasDraggedRef /\ latestTreeRef # Null
            THEN UpdateTreeWithHistory(latestTreeRef)
            ELSE /\ UNCHANGED histVars
                 /\ IF svgTree = Null THEN UNCHANGED treeVars
                    ELSE LET next == updateNode(svgTree, dragState.id,
                                        [kind |-> "transform",
                                         value |-> dragState.baseTransform])
                         IN svgTree' = next /\ latestTreeRef' = next
         /\ dragState' = Null

(* onMouseMove of the canvas while no button is held *)
HoverMove(pos) ==
    /\ pointer.phase = "idle"
    /\ handlePointerMove(pos)
    /\ lastOp' = Op("hover", "", "", dragState # Null)
    /\ UNCHANGED <<selectedIds, error, histVars, dragState, mouseDownPosRef, zoom,
                   timer, pointer, clock>>

(* onMouseUp of the canvas; the click on the pressed element follows *)
MouseUp ==
    /\ pointer.phase = "down"
    /\ pointer' = [pointer EXCEPT !.phase = "up"]
    /\ handlePointerUp
    /\ lastOp' = Op("mouseUp", pointer.node, "", dragState # Null)
    /\ UNCHANGED <<selectedIds, error, hasDraggedRef, mouseDownPosRef, zoom, timer, clock>>

(* onMouseLeave of the canvas: the button is released outside, no click *)
MouseLeave ==
    /\ pointer.phase = "down"
    /\ pointer' = IdlePointer
    /\ handlePointerUp
    /\ lastOp' = Op("mouseLeave", pointer.node, "", dragState # Null)
    /\ UNCHANGED <<selectedIds, error, hasDraggedRef, mouseDownPosRef, zoom, timer, clock>>

(* -------------------------------- zoom -------------------------------- *)
ZoomStep == 25
ZoomCeiling == 300

handleZoomIn ==
    /\ zoom' = IF zoom + ZoomStep < ZoomCeiling THEN zoom + ZoomStep ELSE ZoomCeiling
    /\ lastOp' = Op("zoomIn", "", "", TRUE)
    /\ UNCHANGED <<treeVars, selectedIds, error, histVars, dragVars, timer, pointer, clock>>

handleZoomReset ==
    /\ zoom' = 100
    /\ lastOp' = Op("zoomReset", "", "", TRUE)
    /\ UNCHANGED <<treeVars, selectedIds, error, histVars, dragVars, timer, pointer, clock>>

(* ------------------------------- edits -------------------------------- *)
SelSet == Range(selectedIds)

AttrMutation(key, value) == [kind |-> "attr", key |-> key, value |-> value]

(* updateAttribute(key, value): the discrete attribute edit *)
UpdateAttribute(key, value) ==
    /\ IF Len(selectedIds) = 0 \/ svgTree = Null THEN UNCHANGED <<treeVars, histVars>>
       ELSE UpdateTreeWithHistory(
                updateMultipleNodes(svgTree, SelSet, AttrMutation(key, value)))
    /\ lastOp' = Op("updateAttribute", key, value, Len(selectedIds) # 0 /\ svgTree # Null)
    /\ UNCHANGED <<selectedIds, error, dragVars, zoom, timer, pointer, clock>>

(* variant of updateAttributeWithoutHistory that leaves a pending timeout running *)
UpdateAttributeWithoutHistory_NoRearm(key, value) ==
    /\ IF Len(selectedIds) = 0 \/ svgTree = Null THEN UNCHANGED <<treeVars, timer>>
       ELSE LET next == updateMultipleNodes(svgTree, Range(selectedIds),
                                            [kind |-> "attr", key |-> key, value |-> value])
            IN /\ svgTree' = next
               /\ latestTreeRef' = next
               /\ timer' = IF timer.pending THEN timer
                            ELSE [pending |-> TRUE, remaining |-> DebounceMs,
                                  hist |-> history, idx |-> historyIndex]
    /\ lastOp' = Op("updateAttributeWithoutHistory", key, value,
                 Len(selectedIds) # 0 /\ svgTree # Null)
    /\ UNCHANGED <<selectedIds, error, histVars, dragVars, zoom, pointer, clock>>

(* updateAttributeWithoutHistory(key, value): the color pickers *)
UpdateAttributeWithoutHistory(key, value) ==
    /\ IF Len(selectedIds) = 0 \/ svgTree = Null THEN UNCHANGED <<treeVars, timer>>
       ELSE LET next == updateMultipleNodes(svgTree, SelSet, AttrMutation(key, value))
            IN /\ svgTree' = next
               /\ latestTreeRef' = next
               /\ timer' = [pending |-> TRUE, remaining |-> DebounceMs,
                            hist |-> history, idx |-> historyIndex]
    /\ lastOp' = Op("updateAttributeWithoutHistory", key, value,
                 Len(selectedIds) # 0 /\ svgTree # Null)
    /\ UNCHANGED <<selectedIds, error, histVars, dragVars, zoom, pointer, clock>>

(* TickMs of time pass while the timeout is pending *)
Tick ==
    /\ timer.pending
    /\ timer.remaining > 0
    /\ timer' = [timer EXCEPT !.remaining = IF @ > TickMs THEN @ - TickMs ELSE 0]
    /\ lastOp' = Op("tick", "", "", TRUE)
    /\ UNCHANGED <<treeVars, selectedIds, error, histVars, dragVars, zoom, pointer, clock>>

(* variant of the callback that stores the history and leaves the index *)
TimerFire_KeepIndex ==
    /\ timer.pending
    /\ timer.remaining = 0
    /\ LET treeToSave == latestTreeRef
       IN IF treeToSave # Null
          THEN /\ history' = saveToHistory(timer.hist, timer.idx, treeToSave).history
               /\ historyIndex' = historyIndex
          ELSE UNCHANGED histVars
    /\ timer' = NoTimer
    /\ lastOp' = Op("timer", "", "", latestTreeRef # Null)
    /\ UNCHANGED <<treeVars, selectedIds, error, dragVars, zoom, pointer, clock>>

(* the setTimeout callback of updateAttributeWithoutHistory *)
TimerFire ==
    /\ timer.pending
    /\ timer.remaining = 0
    /\ LET treeToSave == latestTreeRef
       IN IF treeToSave # Null
          THEN /\ history' = saveToHistory(timer.hist, timer.idx, treeToSave).history
               /\ historyIndex' =
                     saveToHistory(timer.hist, timer.idx, treeToSave).historyIndex
          ELSE UNCHANGED histVars
    /\ timer' = NoTimer
    /\ lastOp' = Op("timer", "", "", latestTreeRef # Null)
    /\ UNCHANGED <<treeVars, selectedIds, error, dragVars, zoom, pointer, clock>>

UpdateText(value) ==
    /\ IF Len(selectedIds) = 0 \/ svgTree = Null THEN UNCHANGED <<treeVars, histVars>>
       ELSE UpdateTreeWithHistory(
                updateMultipleNodes(svgTree, SelSet, [kind |-> "text", value |-> value]))
    /\ lastOp' = Op("updateText", "", "", Len(selectedIds) # 0 /\ svgTree # Null)
    /\ UNCHANGED <<selectedIds, error, dragVars, zoom, timer, pointer, clock>>

UpdateRotation(angle) ==
    /\ IF Len(selectedIds) = 0 \/ svgTree = Null THEN UNCHANGED <<treeVars, histVars>>
       ELSE UpdateTreeWithHistory(
                updateMultipleNodes(svgTree, SelSet,
                                    [kind |-> "rotate", angle |-> Num(angle)]))
    /\ lastOp' = Op("updateRotation", ToString(angle), "", Len(selectedIds) # 0 /\ svgTree # Null)
    /\ UNCHANGED <<selectedIds, error, dragVars, zoom, timer, pointer, clock>>

(* variant of deleteSelected without its setSelectedIds call *)
DeleteSelected_KeepSelection ==
    /\ LET idsToDelete == IF svgTree = Null THEN {} ELSE SelSet \ {svgTree.id}
       IN IF Len(selectedIds) = 0 \/ svgTree = Null \/ idsToDelete = {}
          THEN UNCHANGED <<treeVars, histVars, selectedIds>>
          ELSE /\ UpdateTreeWithHistory(removeMultipleNodes(svgTree, idsToDelete))
               /\ selectedIds' = selectedIds
    /\ lastOp' = Op("delete", "", "", svgTree' # svgTree \/ historyIndex' # historyIndex)
    /\ UNCHANGED <<error, dragVars, zoom, timer, pointer, clock>>

DeleteSelected ==
    /\ LET idsToDelete == IF svgTree = Null THEN {} ELSE SelSet \ {svgTree.id}
       IN IF Len(selectedIds) = 0 \/ svgTree = Null \/ idsToDelete = {}
          THEN UNCHANGED <<treeVars, histVars, selectedIds>>
          ELSE /\ UpdateTreeWithHistory(removeMultipleNodes(svgTree, idsToDelete))
               /\ selectedIds' = <<svgTree.id>>
    /\ lastOp' = Op("delete", "", "", svgTree' # svgTree \/ historyIndex' # historyIndex)
    /\ UNCHANGED <<error, dragVars, zoom, timer, pointer, clock>>

DuplicateSelected ==
    /\ LET firstId == selectedIds[1]
           parent == findParent(svgTree, firstId, Null)
           nodeToDuplicate == findNode(svgTree, firstId)
           duplicated == assignNewIds(cloneNode(nodeToDuplicate), firstId)
       IN IF \/ Len(selectedIds) = 0 \/ svgTree = Null
             \/ firstId = svgTree.id
             \/ parent = Null
             \/ nodeToDuplicate = Null
          THEN /\ UNCHANGED <<treeVars, histVars, selectedIds>>
               /\ lastOp' = Op("duplicate", "", "", FALSE)
          ELSE /\ UpdateTreeWithHistory(
                      updateNode(svgTree, parent.id, [kind |-> "push", node |-> duplicated]))
               /\ selectedIds' = <<duplicated.id>>
               /\ lastOp' = Op("duplicate", firstId, duplicated.id, TRUE)
    /\ UNCHANGED <<error, dragVars, zoom, timer, pointer, clock>>

(* variant of groupSelected that takes the id selected last *)
GroupSelected_Last ==
    /\ LET firstId == selectedIds[Len(selectedIds)]
           node == findNode(svgTree, firstId)
           parent == findParent(svgTree, firstId, Null)
           timestamp == clock
           groupId == "group-" \o ToString(timestamp)
           newGroup == Elem(groupId, "g", <<A("data-id", groupId)>>, <<cloneNode(node)>>)
       IN IF \/ Len(selectedIds) = 0 \/ svgTree = Null
             \/ firstId = svgTree.id
             \/ node = Null
             \/ parent = Null
          THEN /\ UNCHANGED <<treeVars, histVars, selectedIds, clock>>
               /\ lastOp' = Op("group", "", "", FALSE)
          ELSE /\ UpdateTreeWithHistory(
                      updateNode(svgTree, parent.id,
                          [kind |-> "group", firstId |-> firstId, newGroup |-> newGroup]))
               /\ selectedIds' = <<groupId>>
               /\ clock' = clock + 1
               /\ lastOp' = Op("group", firstId, groupId, TRUE)
    /\ UNCHANGED <<error, dragVars, zoom, timer, pointer>>

GroupSelected ==
    /\ LET firstId == selectedIds[1]
           node == findNode(svgTree, firstId)
           parent == findParent(svgTree, firstId, Null)
           timestamp == clock
           groupId == "group-" \o ToString(timestamp)
           newGroup == Elem(groupId, "g", <<A("data-id", groupId)>>, <<cloneNode(node)>>)
       IN IF \/ Len(selectedIds) = 0 \/ svgTree = Null
             \/ firstId = svgTree.id
             \/ node = Null
             \/ parent = Null
          THEN /\ UNCHANGED <<treeVars, histVars, selectedIds, clock>>
               /\ lastOp' = Op("group", "", "", FALSE)
          ELSE /\ UpdateTreeWithHistory(
                      updateNode(svgTree, parent.id,
                          [kind |-> "group", firstId |-> firstId, newGroup |-> newGroup]))
               /\ selectedIds' = <<groupId>>
               /\ clock' = clock + 1
               /\ lastOp' = Op("group", firstId, groupId, TRUE)
    /\ UNCHANGED <<error, dragVars, zoom, timer, pointer>>

UngroupSelected ==
    /\ LET firstId == selectedIds[1]
           node == findNode(svgTree, firstId)
           parent == findParent(svgTree, firstId, Null)
       IN IF \/ Len(selectedIds) = 0 \/ svgTree = Null
             \/ node = Null
             \/ node.tag # "g"
             \/ parent = Null
          THEN /\ UNCHANGED <<treeVars, histVars, selectedIds>>
               /\ lastOp' = Op("ungroup", "", "", FALSE)
          ELSE /\ UpdateTreeWithHistory(
                      updateNode(svgTree, parent.id,
                          [kind |-> "ungroup", firstId |-> firstId,
                           kids |-> node.children]))
               /\ selectedIds' = IF Len(node.children) > 0
                                 THEN <<node.children[1].id>> ELSE selectedIds
               /\ lastOp' = Op("ungroup", firstId, "", TRUE)
    /\ UNCHANGED <<error, dragVars, zoom, timer, pointer, clock>>

(* ------------------------------ teardown ------------------------------ *)
(* variant of the unmount without the cleanup effect *)
Unmount_NoCleanup ==
    /\ mounted
    /\ mounted' = FALSE
    /\ timer' = timer
    /\ lastOp' = Op("unmount", "", "", timer.pending)
    /\ UNCHANGED <<treeVars, selectedIds, error, histVars, dragVars, zoom, pointer, clock>>

(* the unmount: the cleanup effect clears the timeout the ref holds *)
Unmount ==
    /\ mounted
    /\ mounted' = FALSE
    /\ timer' = NoTimer
    /\ lastOp' = Op("unmount", "", "", timer.pending)
    /\ UNCHANGED <<treeVars, selectedIds, error, histVars, dragVars, zoom, pointer, clock>>

(* the timeouts left running without a reference once the handler has put *)
(* a new timeout in the ref: the one the ref held was cleared first       *)
TimeoutTable ==
    strays' = IF lastOp'.op = "updateAttributeWithoutHistory" /\ lastOp'.eff
              THEN strays ELSE strays

(* ----------------------- scheduling assumptions ----------------------- *)
(* The event loop runs a due timeout before any later event; panel and    *)
(* keyboard commands are issued while no mouse button is held.            *)
Due == timer.pending /\ timer.remaining = 0

Idle == pointer.phase = "idle" /\ ~Due

(* The explored part of the state space: histories of at most maxHistory  *)
(* snapshots (with room left for a snapshot that is already due to come:  *)
(* a pending timeout, a drag past the threshold) and trees of at most     *)
(* MaxNodes nodes, at most MaxGroups uses of the clock.                   *)
Bounded(maxHistory) ==
    /\ Len(history) <= maxHistory
    /\ timer.pending => timer.idx + 2 <= maxHistory
    /\ (dragState # Null /\ hasDraggedRef) => historyIndex + 2 <= maxHistory
    /\ svgTree # Null => Size(svgTree) <= MaxNodes
    /\ clock <= 1 + MaxGroups

(* ------------------------- the color controls ------------------------- *)
(* What the render that follows a handler leaves in fillColor and         *)
(* strokeColor: the onChange of a color picker stores the picked color,   *)
(* then the selection-sync effect, when the selection differs from the    *)
(* one it synced last, reads both colors from the first selected node.    *)
(* The other controls the effect fills are not modelled.                  *)
PanelColors ==
    LET str == Range(selectedIds')
        picked(key, cur) ==
            IF lastOp'.op = "updateAttributeWithoutHistory" /\ lastOp'.a = key
            THEN lastOp'.b ELSE cur
        firstNode == IF svgTree' = Null \/ selectedIds' = <<>> THEN Null
                     ELSE findNode(svgTree', selectedIds'[1])
        shown(key, default) ==
            LET v == getAttrOrStyle(firstNode, key)
            IN IF v = Null THEN default
               ELSE IF v.value = "" THEN default ELSE v.value
    IN IF prevSelectedIdsRef = str
       THEN /\ prevSelectedIdsRef' = prevSelectedIdsRef
            /\ fillColor' = picked("fill", fillColor)
            /\ strokeColor' = picked("stroke", strokeColor)
       ELSE /\ prevSelectedIdsRef' = str
            /\ IF selectedIds' = <<>>
               THEN fillColor' = DefaultFill /\ strokeColor' = DefaultStroke
               ELSE IF firstNode = Null
               THEN /\ fillColor' = picked("fill", fillColor)
                    /\ strokeColor' = picked("stroke", strokeColor)
               ELSE /\ fillColor' = shown("fill", DefaultFill)
                    /\ strokeColor' = shown("stroke", DefaultStroke)

(* ------------------------- history variables -------------------------- *)
(* gEdit: the last committed edit, the serializations around it, and      *)
(*        whether an undo / a redo followed it directly.                  *)
(* gBurst: the running burst of coalesced edits: its length, the history  *)
(*        and index when it began, the latest key and value, the time     *)
(*        elapsed since its last edit, and whether its timeout has fired. *)
(* gFresh: a document was imported and no edit has been made since.       *)
(* gScn:  progress through: import of DocTwo, Ctrl+click on each          *)
(*        rectangle, opacity edit.                                        *)
EditOps == {"updateAttribute", "updateText", "updateRotation", "delete", "duplicate",
            "group", "ungroup", "mouseUp", "mouseLeave"}

(* the step committed a snapshot through updateTreeWithHistory *)
Committed == lastOp'.op \in EditOps /\ historyIndex' = historyIndex + 1

GhostEdit ==
    gEdit' =
      IF lastOp'.op = "mouseDown"
      THEN [phase |-> "pressed", pre |-> serializeNode(svgTree), post |-> <<>>]
      ELSE IF lastOp'.op = "mouseMove" /\ gEdit.phase = "pressed" THEN gEdit
      ELSE IF Committed /\ lastOp'.op \in {"mouseUp", "mouseLeave"}
      THEN IF gEdit.phase = "pressed"
           THEN [phase |-> "edited", pre |-> gEdit.pre, post |-> serializeNode(svgTree')]
           ELSE NoEdit
      ELSE IF Committed
      THEN [phase |-> "edited", pre |-> serializeNode(svgTree),
            post |-> serializeNode(svgTree')]
      ELSE IF lastOp'.op = "tick" THEN gEdit
      ELSE IF lastOp'.op = "undo" /\ gEdit.phase = "edited"
      THEN [gEdit EXCEPT !.phase = "undone"]
      ELSE IF lastOp'.op = "redo" /\ gEdit.phase = "undone"
      THEN [gEdit EXCEPT !.phase = "redone"]
      ELSE NoEdit

GhostBurst ==
    gBurst' =
      IF lastOp'.op = "updateAttributeWithoutHistory" /\ lastOp'.eff
      THEN IF gBurst.n > 0 /\ ~gBurst.fired
           THEN [gBurst EXCEPT !.n = @ + 1, !.key = lastOp'.a, !.value = lastOp'.b,
                               !.elapsed = 0]
           ELSE [n |-> 1, fired |-> FALSE, h0 |-> history, i0 |-> historyIndex,
                 key |-> lastOp'.a, value |-> lastOp'.b, elapsed |-> 0]
      ELSE IF lastOp'.op = "tick" /\ ~gBurst.fired
      THEN [gBurst EXCEPT !.elapsed = @ + (timer.remaining - timer'.remaining)]
      ELSE IF lastOp'.op = "timer" /\ gBurst.n > 0 /\ ~gBurst.fired
      THEN [gBurst EXCEPT !.fired = TRUE]
      ELSE NoBurst

NonEditOps == {"tick", "timer", "undo", "redo", "click", "treeSelect", "selectAll",
               "mouseDown"}

GhostFresh ==
    gFresh' =
      IF lastOp'.op = "import" THEN svgTree' # Null
      ELSE IF lastOp'.op \in NonEditOps THEN gFresh
      ELSE FALSE

GhostLast ==
    gLast' =
      IF lastOp'.op = "updateAttributeWithoutHistory" /\ lastOp'.eff
      THEN [tree |-> svgTree']
      ELSE IF lastOp'.op = "timer" THEN Null
      ELSE gLast

GhostScn ==
    gScn' =
      IF lastOp'.op = "import"
      THEN IF svgTree' = parseSvgString(DocTwo) THEN <<"import">> ELSE <<>>
      ELSE IF lastOp'.op \in {"mouseDown", "mouseUp"} THEN gScn
      ELSE IF /\ lastOp'.op = "click" /\ lastOp'.b = "ctrl"
              /\ Len(gScn) \in {1, 2}
              /\ lastOp'.a \in {"r1", "r2"} \ Range(gScn)
              /\ lastOp'.eff
      THEN Append(gScn, lastOp'.a)
      ELSE IF /\ lastOp'.op = "updateAttribute" /\ Len(gScn) = 3
              /\ lastOp'.a = "opacity" /\ lastOp'.b = "0.5"
      THEN Append(gScn, "opacity")
      ELSE <<>>

(* --------------------------- specifications --------------------------- *)
Colors == {"#ff0000", "#00ff00"}

ElementNodes == IF svgTree = Null THEN {} ELSE Range(getAllNodes(svgTree))

(* a mouse gesture on one of the given elements, clicks with the given modifiers *)
Pointer(nodes, mods) ==
    \/ \E node \in nodes : ~Due /\ MouseDown(node)
    \/ \E pos \in MovePos : ~Due /\ MouseMove(pos)
    \/ ~Due /\ MouseUp
    \/ ~Due /\ MouseLeave
    \/ \E mod \in mods : ~Due /\ Click(mod)

(* history: every immediate-commit edit, the drag gesture, undo and redo *)
NextHist ==
    /\ \/ \E doc \in {DocOne} : Idle /\ HandleSvgInput(doc)
       \/ Idle /\ Undo
       \/ Idle /\ Redo
       \/ \E id \in {n.id : n \in ElementNodes} : Idle /\ TreeSelect(id, FALSE)
       \/ Pointer({n \in ElementNodes : InSel(n.id)}, {"plain"})
       \/ Idle /\ UpdateAttribute("opacity", "0.5")
       \/ Idle /\ UpdateText(<<"x">>)
       \/ Idle /\ UpdateRotation(30)
       \/ Idle /\ DeleteSelected
       \/ Idle /\ DuplicateSelected
       \/ Idle /\ GroupSelected
       \/ Idle /\ UngroupSelected
    /\ Bounded(MaxHistory)'
    /\ PanelColors
    /\ UNCHANGED <<fnIn, fnOut, mounted, strays>>
    /\ GhostEdit
    /\ UNCHANGED <<gBurst, gFresh, gScn, gLast>>

SpecHist == Init /\ [][NextHist]_vars

(* bursts of coalesced edits begun at any history position *)
BurstDocs == {DocOne}

NextBurst ==
    /\ \/ \E doc \in BurstDocs : Idle /\ HandleSvgInput(doc)
       \/ Idle /\ Undo
       \/ Idle /\ Redo
       \/ Idle /\ UpdateAttribute("opacity", "0.5")
       \/ \E c \in Colors : Idle /\ UpdateAttributeWithoutHistory("fill", c)
       \/ Tick
       \/ TimerFire
    /\ Bounded(MaxBurstHistory)'
    /\ PanelColors
    /\ UNCHANGED <<fnIn, fnOut, mounted, strays>>
    /\ GhostBurst
    /\ gBurst'.n <= MaxBurst
    /\ UNCHANGED <<gEdit, gFresh, gScn, gLast>>

SpecBurst == Init /\ [][NextBurst]_vars

(* the debounce timer against imports, immediate commits, undo and redo;  *)
(* the selection stays as the import leaves it                           *)
NextTimer ==
    /\ \/ \E doc \in {DocOne, NoSvg} : Idle /\ HandleSvgInput(doc)
       \/ Idle /\ Undo
       \/ Idle /\ Redo
       \/ \E o \in {"0.5", "1"} : Idle /\ UpdateAttribute("opacity", o)
       \/ \E c \in Colors : Idle /\ UpdateAttributeWithoutHistory("fill", c)
       \/ Tick
       \/ TimerFire
    /\ Bounded(MaxTimerHistory)'
    /\ PanelColors
    /\ UNCHANGED <<fnIn, fnOut, mounted, strays>>
    /\ GhostFresh
    /\ UNCHANGED <<gEdit, gBurst, gScn, gLast>>

SpecTimer == Init /\ [][NextTimer]_vars

(* imports that fail and succeed around edits, armed timers, undo, redo  *)
NextClear ==
    /\ \/ \E doc \in {DocOne, NoSvg} : Idle /\ HandleSvgInput(doc)
       \/ Idle /\ Undo
       \/ Idle /\ Redo
       \/ Idle /\ UpdateAttribute("opacity", "0.5")
       \/ Idle /\ UpdateAttributeWithoutHistory("fill", "#ff0000")
       \/ Tick
       \/ TimerFire
    /\ Bounded(MaxClearHistory)'
    /\ PanelColors
    /\ UNCHANGED <<fnIn, fnOut, mounted, strays>>
    /\ UNCHANGED ghostVars

SpecClear == Init /\ [][NextClear]_vars

(* what the timer commits when other commands come before it fires *)
NextLatest ==
    /\ \/ \E doc \in BurstDocs : Idle /\ HandleSvgInput(doc)
       \/ Idle /\ Undo
       \/ Idle /\ Redo
       \/ Idle /\ UpdateAttribute("opacity", "0.5")
       \/ Idle /\ UpdateAttributeWithoutHistory("fill", "#ff0000")
       \/ Tick
       \/ TimerFire
    /\ Bounded(MaxClearHistory)'
    /\ PanelColors
    /\ UNCHANGED <<fnIn, fnOut, mounted, strays>>
    /\ GhostLast
    /\ UNCHANGED <<gEdit, gBurst, gFresh, gScn>>

SpecLatest == Init /\ [][NextLatest]_vars

(* coalesced edits, the timer and undo up to the unmount of the editor *)
NextTeardown ==
    /\ \/ \E doc \in BurstDocs : mounted /\ Idle /\ HandleSvgInput(doc) /\ UNCHANGED mounted
       \/ mounted /\ Idle /\ Undo /\ UNCHANGED mounted
       \/ \E c \in Colors :
             mounted /\ Idle /\ UpdateAttributeWithoutHistory("fill", c) /\ UNCHANGED mounted
       \/ Tick /\ UNCHANGED mounted
       \/ TimerFire /\ UNCHANGED mounted
       \/ Unmount
    /\ Bounded(MaxTeardownHistory)'
    /\ PanelColors
    /\ TimeoutTable
    /\ UNCHANGED <<fnIn, fnOut>>
    /\ UNCHANGED ghostVars

SpecTeardown == Init /\ [][NextTeardown]_vars

(* selection: clicks with every modifier, tree view, Select All *)
NextSel ==
    /\ \/ \E doc \in {DocTwo} : Idle /\ HandleSvgInput(doc)
       \/ Pointer(ElementNodes, {"plain", "ctrl", "shift"})
       \/ \E id \in {n.id : n \in ElementNodes},
             multi \in BOOLEAN : Idle /\ TreeSelect(id, multi)
       \/ Idle /\ SelectAll
       \/ Idle /\ UpdateAttribute("opacity", "0.5")
    /\ Bounded(MaxHistory)'
    /\ PanelColors
    /\ UNCHANGED <<fnIn, fnOut, mounted, strays>>
    /\ GhostScn
    /\ UNCHANGED <<gEdit, gBurst, gFresh, gLast>>

SpecSel == Init /\ [][NextSel]_vars

(* duplication: imports, selection through the tree view, duplicate *)
NextDup ==
    /\ \/ \E doc \in {DocOne, DocTwo, DocText, DocLabel} : Idle /\ HandleSvgInput(doc)
       \/ \E id \in {n.id : n \in ElementNodes},
             multi \in BOOLEAN : Idle /\ TreeSelect(id, multi)
       \/ Idle /\ DuplicateSelected
       \/ Idle /\ Undo
       \/ Idle /\ Redo
    /\ Bounded(MaxDupHistory)'
    /\ PanelColors
    /\ UNCHANGED <<fnIn, fnOut, mounted, strays>>
    /\ UNCHANGED ghostVars

SpecDup == Init /\ [][NextDup]_vars

(* drags at two zoom factors, rotation sets and undo on one rectangle *)
DragDocs == {DocOne}

NextDrag ==
    /\ \/ \E doc \in DragDocs : Idle /\ HandleSvgInput(doc)
       \/ Pointer(ElementNodes, {"plain"})
       \/ \E angle \in {0, 30} : Idle /\ UpdateRotation(angle)
       \/ Idle /\ Undo
       \/ handleZoomIn
       \/ handleZoomReset
       \/ \E pos \in MovePos : ~Due /\ HoverMove(pos)
    /\ Bounded(MaxDragHistory)'
    /\ zoom' <= MaxZoom
    /\ PanelColors
    /\ UNCHANGED <<fnIn, fnOut, mounted, strays>>
    /\ UNCHANGED ghostVars

SpecDrag == Init /\ [][NextDrag]_vars

(* rotation sets after one and after two committed drags *)
NextRotate ==
    /\ \/ \E doc \in DragDocs : Idle /\ HandleSvgInput(doc)
       \/ Idle /\ TreeSelect("r1", FALSE)
       \/ Pointer({n \in ElementNodes : InSel(n.id)}, {"plain"})
       \/ Idle /\ UpdateRotation(30)
    /\ Bounded(MaxRotateHistory)'
    /\ PanelColors
    /\ UNCHANGED <<fnIn, fnOut, mounted, strays>>
    /\ UNCHANGED ghostVars

SpecRotate == Init /\ [][NextRotate]_vars

(* every way an id enters the selection, on groups that hold text *)
NextLeaf ==
    /\ \/ \E doc \in {DocGroupLeaf, DocText} : Idle /\ HandleSvgInput(doc)
       \/ \E id \in {n.id : n \in ElementNodes},
             multi \in BOOLEAN : Idle /\ TreeSelect(id, multi)
       \/ Idle /\ SelectAll
       \/ Idle /\ DeleteSelected
       \/ Idle /\ DuplicateSelected
       \/ Idle /\ GroupSelected
       \/ Idle /\ UngroupSelected
       \/ Idle /\ Undo
    /\ Bounded(MaxStructHistory)'
    /\ PanelColors
    /\ UNCHANGED <<fnIn, fnOut, mounted, strays>>
    /\ UNCHANGED ghostVars

SpecLeaf == Init /\ [][NextLeaf]_vars

(* grouping and ungrouping from the newest entry and after an undo *)
NextRegroup ==
    /\ \/ \E doc \in {DocTwo, DocText} : Idle /\ HandleSvgInput(doc)
       \/ \E id \in {n.id : n \in ElementNodes} : Idle /\ TreeSelect(id, FALSE)
       \/ Idle /\ DeleteSelected
       \/ Idle /\ GroupSelected
       \/ Idle /\ UngroupSelected
       \/ Idle /\ Undo
       \/ Idle /\ Redo
    /\ Bounded(MaxRegroupHistory)'
    /\ PanelColors
    /\ UNCHANGED <<fnIn, fnOut, mounted, strays>>
    /\ UNCHANGED ghostVars

SpecRegroup == Init /\ [][NextRegroup]_vars

(* the structural operations on documents with siblings and with a group *)
NextStruct ==
    /\ \/ \E doc \in {DocTwo, DocText} : Idle /\ HandleSvgInput(doc)
       \/ \E id \in {n.id : n \in ElementNodes},
             multi \in BOOLEAN : Idle /\ TreeSelect(id, multi)
       \/ Idle /\ DeleteSelected
       \/ Idle /\ DuplicateSelected
       \/ Idle /\ GroupSelected
       \/ Idle /\ UngroupSelected
       \/ Idle /\ Undo
       \/ Idle /\ Redo
    /\ Bounded(MaxStructHistory)'
    /\ PanelColors
    /\ UNCHANGED <<fnIn, fnOut, mounted, strays>>
    /\ UNCHANGED ghostVars

SpecStruct == Init /\ [][NextStruct]_vars

(* Select All against tree-view selections, with text leaves and without  *)
(* any selectable node                                                    *)
NextAll ==
    /\ \/ \E doc \in {DocBare, DocTwo, DocText} : Idle /\ HandleSvgInput(doc)
       \/ \E id \in {n.id : n \in ElementNodes},
             multi \in BOOLEAN : Idle /\ TreeSelect(id, multi)
       \/ Idle /\ SelectAll
       \/ Idle /\ DeleteSelected
       \/ Idle /\ Undo
    /\ Bounded(MaxHistory)'
    /\ PanelColors
    /\ UNCHANGED <<fnIn, fnOut, mounted, strays>>
    /\ UNCHANGED ghostVars

SpecAll == Init /\ [][NextAll]_vars

(* the color controls and the writes of fill and stroke, over documents   *)
(* whose rectangle has every combination of style string and bare fill    *)
NextStyle ==
    /\ \/ \E doc \in StyleDocs : Idle /\ HandleSvgInput(doc)
       \/ \E id \in {n.id : n \in ElementNodes} : Idle /\ TreeSelect(id, FALSE)
       \/ \E key \in {"fill", "stroke", "opacity"}, value \in {"", "#ff0000"} :
             Idle /\ UpdateAttribute(key, value)
       \/ Idle /\ Undo
       \/ Idle /\ Redo
    /\ Bounded(MaxStyleHistory)'
    /\ PanelColors
    /\ UNCHANGED <<fnIn, fnOut, mounted, strays>>
    /\ UNCHANGED ghostVars

SpecStyle == Init /\ [][NextStyle]_vars

(* updateNode applied on its own to imported trees whose objects are      *)
(* numbered, with each kind of callback and with an id that is absent     *)
UpdateCallbacks ==
    { [kind |-> "transform", value |-> <<>>],
      [kind |-> "push", node |-> Elem("r1-copy", "rect", <<>>, <<>>)],
      [kind |-> "attr", key |-> "opacity", value |-> "0.5"],
      [kind |-> "text", value |-> <<"x">>] }

UpdateInputs ==
    { [tree |-> TagObjects(parseSvgString(doc), 1), id |-> id, m |-> m] :
        doc \in {DocBare, DocOne, DocTwo, DocText},
        id \in {"node-1", "r1", "r2", "g1", "t1", "absent"},
        m \in UpdateCallbacks }

InitUpdate == InitEditor /\ fnIn \in UpdateInputs /\ fnOut = Null

ApplyUpdateNode ==
    /\ fnOut = Null
    /\ fnOut' = [value |-> updateNode(fnIn.tree, fnIn.id, fnIn.m)]
    /\ lastOp' = Op("updateNode", fnIn.id, fnIn.m.kind, TRUE)
    /\ UNCHANGED <<svgTree, latestTreeRef, selectedIds, error, history, historyIndex,
                   dragState, hasDraggedRef, mouseDownPosRef, zoom, timer, pointer,
                   clock, fillColor, strokeColor, prevSelectedIdsRef, fnIn, mounted, strays,
                   ghostVars>>

SpecUpdate == InitUpdate /\ [][ApplyUpdateNode]_vars

(* updateNode and updateMultipleNodes applied on their own to imported    *)
(* trees, with sets of ids that hold nested nodes, text leaves, the root  *)
(* and an id that is absent                                               *)
InitMany ==
    /\ InitEditor
    /\ fnIn \in { [tree |-> TagObjects(parseSvgString(doc), 1), id |-> id, ids |-> ids,
                    m |-> m] :
                    doc \in {DocTwo, DocText},
                    id \in {"t1", "absent"},
                    ids \in SUBSET {"node-1", "g1", "t1", "text-2", "absent"},
                    m \in { [kind |-> "attr", key |-> "opacity", value |-> "0.5"],
                            [kind |-> "text", value |-> <<"x">>] } }
    /\ fnOut = Null

ApplyUpdateMany_One ==
    /\ fnOut = Null
    /\ fnOut' = [value |-> updateNode(fnIn.tree, fnIn.id, fnIn.m)]
    /\ lastOp' = Op("updateMultipleNodes", "", fnIn.m.kind, TRUE)
    /\ UNCHANGED <<svgTree, latestTreeRef, selectedIds, error, history, historyIndex,
                   dragState, hasDraggedRef, mouseDownPosRef, zoom, timer, pointer,
                   clock, fillColor, strokeColor, prevSelectedIdsRef, fnIn, mounted, strays,
                   ghostVars>>

ApplyUpdateMany ==
    /\ fnOut = Null
    /\ fnOut' = [value |-> updateMultipleNodes(fnIn.tree, fnIn.ids, fnIn.m)]
    /\ lastOp' = Op("updateMultipleNodes", "", fnIn.m.kind, TRUE)
    /\ UNCHANGED <<svgTree, latestTreeRef, selectedIds, error, history, historyIndex,
                   dragState, hasDraggedRef, mouseDownPosRef, zoom, timer, pointer,
                   clock, fillColor, strokeColor, prevSelectedIdsRef, fnIn, mounted, strays,
                   ghostVars>>

SpecMany == InitMany /\ [][ApplyUpdateNode \/ ApplyUpdateMany]_vars

(* import, export and import again, on documents whose root has up to two *)
(* children: rects with and without ids, text elements whose text has     *)
(* spaces around it or spells markup, a group, bare text (never two text  *)
(* nodes in a row: the parser joins them)                                 *)
RoundKids ==
    { DomElem("rect", <<A("id", "r1"), A("width", "10")>>, <<>>),
      DomElem("rect", <<A("width", "10")>>, <<>>),
      DomElem("text", <<A("id", "t1")>>, <<DomText(<<"hi">>)>>),
      DomElem("text", <<>>, <<DomText(<<" ", "hi", " ">>)>>),
      DomElem("text", <<>>, <<DomText(<<MarkupToken>>)>>),
      DomElem("g", <<A("data-id", "g1")>>, <<DomElem("rect", <<>>, <<>>)>>),
      DomText(<<"hi">>) }

RoundDocs ==
    { DomElem("svg", attrs, kids) :
        attrs \in {<<>>, <<A("viewBox", "0 0 10 10")>>},
        kids \in {<<>>} \cup {<<a>> : a \in RoundKids}
                 \cup {pair \in {<<a, b>> : a \in RoundKids, b \in RoundKids} :
                          IsDomElem(pair[1]) \/ IsDomElem(pair[2])} }

InitRound == InitEditor /\ fnIn \in {[doc |-> doc] : doc \in RoundDocs} /\ fnOut = Null

ApplyRoundTrip ==
    /\ fnOut = Null
    /\ LET first == parseSvgString(fnIn.doc)
           markup == serializeNode(first)
       IN fnOut' = [first |-> first, markup |-> markup,
                    again |-> parseSvgString(readMarkup(markup))]
    /\ lastOp' = Op("roundTrip", "", "", TRUE)
    /\ UNCHANGED <<svgTree, latestTreeRef, selectedIds, error, history, historyIndex,
                   dragState, hasDraggedRef, mouseDownPosRef, zoom, timer, pointer,
                   clock, fillColor, strokeColor, prevSelectedIdsRef, fnIn, mounted, strays,
                   ghostVars>>

SpecRound == InitRound /\ [][ApplyRoundTrip]_vars

(* (tag, attribute keys without the id marker, text) of every node *)
Profiles(tree) ==
    [i \in 1..Len(Nodes(tree)) |->
        [tag |-> Nodes(tree)[i].tag,
         keys |-> {a.k : a \in Range(Nodes(tree)[i].attrs)} \ {"data-id"},
         text |-> Nodes(tree)[i].text]]

CountIn(seq, x) == Cardinality({i \in 1..Len(seq) : seq[i] = x})

(* ------------------------------- claims ------------------------------- *)

(* C1: an undo issued right after a committed edit makes the live tree    *)
(* serialize as it did just before the edit, and a redo issued right      *)
(* after that undo makes it serialize as it did just after the edit.      *)
C1_UndoRedoRestore ==
    /\ gEdit.phase = "undone" => serializeNode(svgTree) = gEdit.pre
    /\ gEdit.phase = "redone" => serializeNode(svgTree) = gEdit.post

(* C2: every commit of a snapshot discards the entries after the index,   *)
(* appends the snapshot and moves the index to the new tail; a redo       *)
(* issued right after a commit changes nothing.                           *)
C2_CommitDiscardsRedoBranch ==
    [][/\ (lastOp'.op \in {"updateAttribute", "timer"} /\ lastOp'.eff)
          => /\ history' = Append(SubSeq(history, 1, historyIndex + 1), latestTreeRef')
             /\ historyIndex' = Len(history') - 1
       /\ (lastOp.op \in {"updateAttribute", "timer"} /\ lastOp.eff
           /\ lastOp'.op = "redo")
          => /\ svgTree' = svgTree
             /\ historyIndex' = historyIndex]_vars

(* C3: while a burst of coalesced edits runs, the history and the index   *)
(* stay as they were when it began and every selected node carries the    *)
(* latest value; when its timeout fires, DebounceMs after the last edit,  *)
(* exactly one entry, the live tree, is appended.                         *)
C3_BurstOneSnapshot ==
    /\ (gBurst.n > 0 /\ ~gBurst.fired)
       => /\ history = gBurst.h0
          /\ historyIndex = gBurst.i0
          /\ gBurst.elapsed <= DebounceMs
          /\ \A i \in 1..Len(Nodes(svgTree)) :
                Nodes(svgTree)[i].id \in Range(selectedIds)
                => /\ AttrHas(Nodes(svgTree)[i].attrs, gBurst.key)
                   /\ AttrGet(Nodes(svgTree)[i].attrs, gBurst.key) = gBurst.value
    /\ (gBurst.n > 0 /\ gBurst.fired)
       => /\ history = Append(SubSeq(gBurst.h0, 1, gBurst.i0 + 1), svgTree)
          /\ Len(history) = gBurst.i0 + 2
          /\ historyIndex = gBurst.i0 + 1
          /\ gBurst.elapsed = DebounceMs

(* a burst of at least two coalesced edits whose timeout has fired *)
C3_Witness == gBurst.fired /\ gBurst.n >= 2 /\ lastOp.op = "timer"

(* C4: from a successful import until the next edit, the history is the   *)
(* single imported tree and the index is 0.                               *)
C4_ImportResetsHistory ==
    gFresh => (history = <<svgTree>> /\ historyIndex = 0)

(* C5: a firing of the debounce timer puts its snapshot after the         *)
(* snapshots committed so far and removes none of them.                   *)
C5_TimerKeepsCommitted ==
    [][(lastOp'.op = "timer" /\ lastOp'.eff)
       => /\ IsPrefix(SubSeq(history, 1, historyIndex + 1), history')
          /\ history'[Len(history')] = latestTreeRef]_vars

(* C6: every node id of the live tree occurs once in the tree.            *)
C6_IdsUnique ==
    svgTree # Null
    => \A i, j \in 1..Len(Ids(svgTree)) :
          i # j => Ids(svgTree)[i] # Ids(svgTree)[j]

(* C7 as stated: a plain click on a non-root node X that is not the end   *)
(* of a drag leaves the selection {X} if X was not selected and empty if  *)
(* it was.                                                                *)
C7_PlainClickClearsOthers ==
    [][(lastOp'.op = "click" /\ lastOp'.b = "plain" /\ lastOp'.eff)
       => selectedIds' = IF lastOp'.a \in Range(selectedIds)
                         THEN <<>> ELSE <<lastOp'.a>>]_vars

(* C7 amended: a plain click on a non-root node X that is not the end of  *)
(* a drag toggles the membership of X and leaves every other member of    *)
(* the selection in place.                                                *)
C7_PlainClickToggles ==
    [][(lastOp'.op = "click" /\ lastOp'.b = "plain" /\ lastOp'.eff)
       => /\ (lastOp'.a \in Range(selectedIds'))
                = ~(lastOp'.a \in Range(selectedIds))
          /\ Range(selectedIds') \ {lastOp'.a} = Range(selectedIds) \ {lastOp'.a}
          /\ Len(selectedIds') = Cardinality(Range(selectedIds'))]_vars

(* a plain click has toggled its node while another id stayed selected *)
C7_Witness ==
    /\ lastOp.op = "click" /\ lastOp.b = "plain" /\ lastOp.eff
    /\ Range(selectedIds) \ {lastOp.a} # {}

(* C8: after a click, a tree-view selection or Select All the selection   *)
(* does not contain the root id, and a click on the root leaves the       *)
(* selection unchanged.                                                   *)
C8_RootNeverSelected ==
    [][/\ (lastOp'.op \in {"click", "treeSelect", "selectAll"} /\ svgTree' # Null)
          => ~(svgTree'.id \in Range(selectedIds'))
       /\ (lastOp'.op = "click" /\ svgTree # Null /\ lastOp'.a = svgTree.id)
          => selectedIds' = selectedIds]_vars

(* C9: after importing the two-rectangle document, Ctrl+clicking each     *)
(* rectangle and setting opacity to 0.5, both rectangles carry            *)
(* opacity="0.5" and the root carries no opacity attribute.               *)
C9_OpacityOnBothRects ==
    Len(gScn) = 4
    => /\ \A id \in {"r1", "r2"} :
             /\ AttrHas(findNode(svgTree, id).attrs, "opacity")
             /\ AttrGet(findNode(svgTree, id).attrs, "opacity") = "0.5"
       /\ ~AttrHas(svgTree.attrs, "opacity")

(* C10: a duplication of the selected non-root node X adds one subtree,   *)
(* as the last child of X's parent, whose root id no other node has and   *)
(* whose tags, attributes other than data-id, texts and shape are those   *)
(* of X; the nodes that were there keep their place and content; the      *)
(* selection becomes the id of the copy.                                  *)
C10_DuplicateAddsOneCopy ==
    [][(lastOp'.op = "duplicate" /\ lastOp'.eff)
       => LET old == Nodes(svgTree)
              new == Nodes(svgTree')
              orig == Nodes(findNode(svgTree, lastOp'.a))
              c == Len(orig)
              parentId == findParent(svgTree, lastOp'.a, Null).id
              k == CHOOSE i \in 1..Len(old) :
                      /\ old[i].id = parentId
                      /\ \A j \in 1..(i - 1) : old[j].id # parentId
              m == Size(old[k])
              Same(a, b) == /\ a.id = b.id /\ a.tag = b.tag
                            /\ a.attrs = b.attrs /\ a.text = b.text
              Grown(i) == IF i <= k /\ i + Size(old[i]) > k THEN c ELSE 0
          IN /\ Len(new) = Len(old) + c
             /\ \A i \in 1..(k + m - 1) :
                   Same(old[i], new[i]) /\ Size(new[i]) = Size(old[i]) + Grown(i)
             /\ \A i \in (k + m)..Len(old) :
                   Same(old[i], new[i + c]) /\ Size(new[i + c]) = Size(old[i])
             /\ new[k + m].id = lastOp'.b
             /\ \A i \in 1..Len(new) : i # k + m => new[i].id # lastOp'.b
             /\ \A j \in 1..c :
                   /\ new[k + m + j - 1].tag = orig[j].tag
                   /\ new[k + m + j - 1].text = orig[j].text
                   /\ Size(new[k + m + j - 1]) = Size(orig[j])
                   /\ AttrDel(new[k + m + j - 1].attrs, "data-id")
                         = AttrDel(orig[j].attrs, "data-id")
             /\ selectedIds' = <<lastOp'.b>>]_vars

(* C11: after a write of fill or stroke with a non-empty color c, every   *)
(* selected node reads c for the key, from its style as well as from its  *)
(* bare attribute; after a write of the empty value the node's style has  *)
(* no entry for the key, the bare attribute is absent, and no empty style *)
(* attribute is left.                                                     *)
C11_WriteColor ==
    (lastOp.op = "updateAttribute" /\ lastOp.eff /\ lastOp.a \in {"fill", "stroke"})
    => \A i \in 1..Len(Nodes(svgTree)) :
          LET n == Nodes(svgTree)[i]
              parts == StyleParts(StyleOf(n.attrs))
          IN n.id \in Range(selectedIds)
             => IF lastOp.b # ""
                THEN /\ getAttrOrStyle(n, lastOp.a) = [value |-> lastOp.b]
                     /\ getStyleValue(StyleOf(n.attrs), lastOp.a) = [value |-> lastOp.b]
                     /\ AttrHas(n.attrs, lastOp.a)
                     /\ AttrGet(n.attrs, lastOp.a) = lastOp.b
                ELSE /\ \A j \in 1..Len(parts) : parts[j][1] # lastOp.a
                     /\ ~AttrHas(n.attrs, lastOp.a)
                     /\ AttrHas(n.attrs, "style") => AttrGet(n.attrs, "style") # <<>>

(* the empty value was written to fill on a rectangle that keeps a style  *)
(* entry of another key                                                   *)
C11_Witness ==
    /\ lastOp.op = "updateAttribute" /\ lastOp.eff
    /\ lastOp.a = "fill" /\ lastOp.b = ""
    /\ selectedIds = <<"r1">>
    /\ StyleOf(findNode(svgTree, "r1").attrs) = << <<"stroke", "#000000">> >>

(* C12: when the selection changes to a node, the fill control shows the  *)
(* fill found in the node's style string when the style has an entry      *)
(* with a value for fill, and only otherwise the bare fill attribute (the *)
(* default color when the value read is absent or empty).                 *)
C12_StyleBeforeAttribute ==
    [][(lastOp'.op = "treeSelect" /\ prevSelectedIdsRef' # prevSelectedIdsRef
        /\ findNode(svgTree', lastOp'.a) # Null)
       => LET n == findNode(svgTree', lastOp'.a)
              inStyle == getStyleValue(StyleOf(n.attrs), "fill")
              hasEntry == IF inStyle = Null THEN FALSE ELSE inStyle.value # ""
              read == IF hasEntry THEN inStyle.value
                      ELSE IF AttrHas(n.attrs, "fill") THEN AttrGet(n.attrs, "fill")
                      ELSE ""
          IN fillColor' = IF read = "" THEN DefaultFill ELSE read]_vars

(* C13 as stated: Select All leaves the selection equal to the set of     *)
(* ids of the non-root, non-text nodes, or empty when that set was wholly *)
(* contained in the selection; a Select All that directly follows a       *)
(* Select All leaves the selection empty.                                 *)
C13_SelectAllTwiceEmpty ==
    [][(lastOp'.op = "selectAll" /\ lastOp'.eff)
       => LET all == {n.id : n \in {m \in Range(Nodes(svgTree)) :
                                       m.id # svgTree.id /\ m.tag # TextTag}}
          IN /\ Range(selectedIds') =
                   IF all \subseteq Range(selectedIds) THEN {} ELSE all
             /\ lastOp'.a = "again" => selectedIds' = <<>>]_vars

(* C13 amended: Select All leaves the selection equal to the set of ids   *)
(* of the non-root, non-text nodes, or empty when that set was wholly     *)
(* contained in the selection; a Select All that directly follows a       *)
(* Select All leaves the selection empty when the first one selected the  *)
(* full set or nothing is selectable, and selects the full set when the   *)
(* first one cleared the selection.                                       *)
C13_SelectAllToggles ==
    [][(lastOp'.op = "selectAll" /\ lastOp'.eff)
       => LET all == {n.id : n \in {m \in Range(Nodes(svgTree)) :
                                       m.id # svgTree.id /\ m.tag # TextTag}}
          IN /\ Range(selectedIds') =
                   IF all \subseteq Range(selectedIds) THEN {} ELSE all
             /\ Len(selectedIds') = Cardinality(Range(selectedIds'))
             /\ lastOp'.a = "again"
                => Range(selectedIds') =
                      IF selectedIds # <<>> \/ all = {} THEN {} ELSE all]_vars

(* two Select All in a row have ended with the full set selected, in a    *)
(* tree that has a text leaf                                              *)
C13_Witness ==
    /\ lastOp.op = "selectAll" /\ lastOp.a = "again" /\ lastOp.eff
    /\ Range(selectedIds) = {"g1", "t1"}

(* C14: the click that ends a gesture in which the pointer has been more  *)
(* than DragThreshold away from the press position leaves the selection   *)
(* as it was.                                                             *)
C14_DragSuppressesClick ==
    [][(lastOp'.op = "click" /\ pointer.far) => selectedIds' = selectedIds]_vars

(* C15: in the tree updateNode returns for target Y, the subtree of every *)
(* node X of the input that is neither Y nor an ancestor of Y is the      *)
(* object it was in the input.                                            *)
C15_UntouchedSubtreesShared ==
    (fnOut # Null /\ fnIn.id \in Range(Ids(fnIn.tree)))
    => \A i \in 1..Len(Nodes(fnIn.tree)) :
          LET X == Nodes(fnIn.tree)[i]
          IN ~(fnIn.id \in Range(Ids(X)))
             => \E j \in 1..Len(Nodes(fnOut.value)) : Nodes(fnOut.value)[j] = X

(* C16: an import that finds no svg root leaves the live tree absent, the *)
(* selection empty, the history empty with index -1 and the error set;    *)
(* while the error is set no event, the callback of a timer armed before  *)
(* the import included, brings back a tree or a history entry; a          *)
(* successful import clears the error.                                    *)
C16_FailedImportStaysCleared ==
    /\ (lastOp.op = "import" /\ ~lastOp.eff)
          => (error # "" /\ svgTree = Null /\ selectedIds = <<>>
              /\ history = <<>> /\ historyIndex = -1)
    /\ error # "" => (svgTree = Null /\ history = <<>> /\ historyIndex = -1)
    /\ (lastOp.op = "import" /\ lastOp.eff) => (error = "" /\ svgTree # Null)

(* the callback of a timer armed before a failed import has run *)
C16_Witness == error # "" /\ lastOp.op = "timer"

(* C17: a Ctrl/Cmd+click on a non-root node X that is not the end of a    *)
(* drag removes X from the selection if it was in it and adds it if it    *)
(* was not; the membership of every other id is unchanged.                *)
C17_CtrlClickTogglesOnlyX ==
    [][(lastOp'.op = "click" /\ lastOp'.b = "ctrl" /\ lastOp'.eff)
       => /\ InSel(lastOp'.a) => ~(lastOp'.a \in Range(selectedIds'))
          /\ ~InSel(lastOp'.a) => lastOp'.a \in Range(selectedIds')
          /\ \A id \in (Range(selectedIds) \cup Range(selectedIds')) \ {lastOp'.a} :
                InSel(id) = (id \in Range(selectedIds'))]_vars

(* a Ctrl/Cmd+click has removed its node while another id stayed selected *)
C17_Witness ==
    /\ lastOp.op = "click" /\ lastOp.b = "ctrl" /\ lastOp.eff
    /\ ~InSel(lastOp.a)
    /\ selectedIds # <<>>

(* C18: a Shift+click on a non-root node X that is not the end of a drag  *)
(* leaves the previous selection plus X; no Shift+click removes an id     *)
(* from the selection.                                                    *)
C18_ShiftClickAdds ==
    [][(lastOp'.op = "click" /\ lastOp'.b = "shift")
       => /\ Range(selectedIds) \subseteq Range(selectedIds')
          /\ lastOp'.eff => Range(selectedIds') = Range(selectedIds) \cup {lastOp'.a}]_vars

(* a Shift+click has put its node into a selection that holds another id *)
C18_Witness ==
    /\ lastOp.op = "click" /\ lastOp.b = "shift" /\ lastOp.eff
    /\ InSel(lastOp.a)
    /\ Cardinality(Range(selectedIds)) >= 2

ImmediateOps == {"updateAttribute", "updateText", "updateRotation", "delete", "duplicate",
                 "group", "ungroup"}

(* C19: a delete, duplicate, group, ungroup, text edit, discrete          *)
(* attribute edit or rotation set that takes effect leaves, in the step   *)
(* that replaces the live tree, the old history cut after the old index   *)
(* plus one entry equal to the new live tree, and the index on that       *)
(* last entry.                                                            *)
C19_ImmediateCommitOneSnapshot ==
    [][(lastOp'.op \in ImmediateOps /\ lastOp'.eff)
       => /\ svgTree' # Null
          /\ history' = Append(SubSeq(history, 1, historyIndex + 1), svgTree')
          /\ Len(history') = historyIndex + 2
          /\ historyIndex' = Len(history') - 1]_vars

(* an immediate-commit edit has just committed the second history entry *)
C19_Witness ==
    /\ lastOp.op \in ImmediateOps /\ lastOp.eff
    /\ gEdit.phase = "edited"
    /\ Len(history) = 2 /\ historyIndex = 1
    /\ history[2] = svgTree

(* C20: an undo at index 0 (or with no history) and a redo at the last    *)
(* index leave the live tree, the history and the index as they were;     *)
(* any other undo lowers and any other redo raises the index by one, the  *)
(* live tree becomes equal to the snapshot at the new index, and the      *)
(* history sequence is unchanged.                                         *)
C20_UndoRedoFrame ==
    [][/\ lastOp'.op = "undo"
          => IF historyIndex <= 0
             THEN svgTree' = svgTree /\ history' = history /\ historyIndex' = historyIndex
             ELSE /\ historyIndex' = historyIndex - 1
                  /\ svgTree' = history[historyIndex' + 1]
                  /\ history' = history
       /\ lastOp'.op = "redo"
          => IF historyIndex >= Len(history) - 1
             THEN svgTree' = svgTree /\ history' = history /\ historyIndex' = historyIndex
             ELSE /\ historyIndex' = historyIndex + 1
                  /\ svgTree' = history[historyIndex' + 1]
                  /\ history' = history]_vars

(* an undo has stepped back from the tail of a history of three snapshots *)
C20_Witness ==
    /\ lastOp.op = "undo" /\ lastOp.eff
    /\ Len(history) = 3 /\ historyIndex = 1
    /\ svgTree = history[2]

(* C21: a structural operation that takes effect leaves exactly one id    *)
(* selected: delete and a successful import the root id, duplicate the id *)
(* of the copy appended to the parent, group the id of the new g element  *)
(* that wraps the node, ungroup (of a group that has children) the id of  *)
(* the group's first former child.                                        *)
C21_StructuralOpSelection ==
    [][/\ (lastOp'.op \in {"delete", "import"} /\ lastOp'.eff)
          => selectedIds' = <<svgTree'.id>>
       /\ (lastOp'.op = "delete" /\ lastOp'.eff) => svgTree'.id = svgTree.id
       /\ (lastOp'.op = "duplicate" /\ lastOp'.eff)
          => LET firstId == selectedIds[1]
                 parent == findNode(svgTree', findParent(svgTree, firstId, Null).id)
                 copy == parent.children[Len(parent.children)]
             IN /\ selectedIds' = <<copy.id>>
                /\ Len(findParent(svgTree, firstId, Null).children) + 1
                      = Len(parent.children)
       /\ (lastOp'.op = "group" /\ lastOp'.eff)
          => /\ Len(selectedIds') = 1
             /\ ~(selectedIds'[1] \in Range(Ids(svgTree)))
             /\ LET group == findNode(svgTree', selectedIds'[1])
                IN /\ group # Null
                   /\ group.tag = "g"
                   /\ Len(group.children) = 1
                   /\ group.children[1].id = selectedIds[1]
       /\ (lastOp'.op = "ungroup" /\ lastOp'.eff
           /\ Len(findNode(svgTree, selectedIds[1]).children) > 0)
          => selectedIds' = <<findNode(svgTree, selectedIds[1]).children[1].id>>]_vars

(* an ungroup has left the group's former child selected *)
C21_Witness ==
    /\ lastOp.op = "ungroup" /\ lastOp.eff
    /\ selectedIds = <<"t1">>
    /\ findParent(svgTree, "t1", Null) = svgTree

(* C22: importing a document, serializing the tree and importing the      *)
(* result again gives a tree with the same multiset of (tag, attribute    *)
(* keys, text) over its nodes as the first import, the id marker          *)
(* attribute left aside; the marker is in no open tag of the markup.      *)
C22_RoundTripKeepsProfiles ==
    (fnOut # Null /\ lastOp.op = "roundTrip")
    => /\ fnOut.again # Null
       /\ \A x \in Range(Profiles(fnOut.first)) \cup Range(Profiles(fnOut.again)) :
             CountIn(Profiles(fnOut.first), x) = CountIn(Profiles(fnOut.again), x)
       /\ \A i \in 1..Len(fnOut.markup) :
             fnOut.markup[i].item = "open"
             => \A a \in Range(fnOut.markup[i].attrs) : a.k # "data-id"

FnAt(transform, name) == {i \in 1..Len(transform) : transform[i].fn = name}

(* C23: in every reachable state the transform of every node, written by  *)
(* drags and rotation sets on a node imported without one, has a          *)
(* translate component before its rotate components whenever both are     *)
(* present.                                                               *)
C23_TranslateBeforeRotate ==
    svgTree # Null
    => \A n \in Range(Nodes(svgTree)) :
          LET t == TransformOf(n.attrs)
          IN (FnAt(t, "translate") # {} /\ FnAt(t, "rotate") # {})
             => \A j \in FnAt(t, "rotate") : \E i \in FnAt(t, "translate") : i < j

(* the translate components of the transform of node id, in order *)
TranslatesOf(tree, id) ==
    SelectSeq(TransformOf(findNode(tree, id).attrs), LAMBDA c : c.fn = "translate")

(* C24: a rotation set leaves every translate component of every selected *)
(* node in place with the values it had; only the rotate component        *)
(* changes.                                                               *)
C24_RotationKeepsTranslates ==
    [][(lastOp'.op = "updateRotation" /\ lastOp'.eff)
       => \A id \in Range(selectedIds) \cap Range(Ids(svgTree)) :
             TranslatesOf(svgTree', id) = TranslatesOf(svgTree, id)]_vars

(* C25: the press on a selected node captures the node's transform; after *)
(* every pointer move of a drag that has passed the threshold the dragged *)
(* node's transform is the captured one followed by one translate of      *)
(* (pointer - press position) / zoom, whatever the moves before, and no   *)
(* other attribute of any node changes.                                   *)
C25_DragFromBaseline ==
    [][/\ (lastOp'.op = "mouseDown" /\ lastOp'.eff /\ InSel(lastOp'.a))
          => /\ dragState' # Null
             /\ dragState'.baseTransform
                   = TransformOf(findNode(svgTree, lastOp'.a).attrs)
       /\ (lastOp'.op = "mouseMove" /\ lastOp'.eff)
          => /\ dragState' = dragState
             /\ Ids(svgTree') = Ids(svgTree)
             /\ TransformOf(findNode(svgTree', dragState.id).attrs)
                   = dragState.baseTransform
                     \o <<[fn |-> "translate",
                           args |-> <<Rat((pointer'.x - PressPos.x) * 100, zoom),
                                      Rat((pointer'.y - PressPos.y) * 100, zoom)>>]>>
             /\ \A i \in 1..Len(Nodes(svgTree)) :
                   LET old == Nodes(svgTree)[i]
                       new == Nodes(svgTree')[i]
                   IN IF old.id = dragState.id
                      THEN AttrDel(new.attrs, "transform") = AttrDel(old.attrs, "transform")
                      ELSE new.attrs = old.attrs]_vars

(* a drag at zoom 1.25 has passed the threshold and come back to 5px *)
C25_Witness ==
    /\ lastOp.op = "mouseMove" /\ lastOp.eff
    /\ pointer.far /\ pointer.x = 3 /\ pointer.y = 4
    /\ zoom = 125
    /\ dragState # Null /\ dragState.baseTransform # <<>>

(* C26: the pointer moves of a drag change neither the history nor the    *)
(* index; the release or the leave that ends a drag past the threshold    *)
(* commits one snapshot equal to the dragged tree, a release without a    *)
(* drag commits none; either clears the drag state, and pointer moves     *)
(* after it change nothing.                                               *)
C26_DragOneSnapshot ==
    [][/\ lastOp'.op \in {"mouseMove", "hover"}
          => history' = history /\ historyIndex' = historyIndex
       /\ (lastOp'.op \in {"mouseUp", "mouseLeave"} /\ lastOp'.eff /\ hasDraggedRef)
          => /\ svgTree' = svgTree
             /\ history' = Append(SubSeq(history, 1, historyIndex + 1), svgTree)
             /\ historyIndex' = Len(history') - 1
       /\ (lastOp'.op \in {"mouseUp", "mouseLeave"} /\ ~(lastOp'.eff /\ hasDraggedRef))
          => history' = history /\ historyIndex' = historyIndex
       /\ lastOp'.op \in {"mouseUp", "mouseLeave"} => dragState' = Null
       /\ lastOp'.op = "hover"
          => ~lastOp'.eff /\ svgTree' = svgTree /\ latestTreeRef' = latestTreeRef]_vars

(* the pointer has moved after a committed drag and the snapshot stands *)
C26_Witness ==
    /\ lastOp.op = "hover"
    /\ hasDraggedRef
    /\ Len(history) = 3 /\ historyIndex = 2
    /\ history[3] = svgTree /\ history[2] # svgTree

C28_TimerCommitsLastEdit ==
    [][(lastOp'.op = "timer" /\ gLast # Null)
       => /\ lastOp'.eff
          /\ historyIndex' = Len(history') - 1
          /\ history'[historyIndex' + 1] = gLast.tree]_vars

(* C29: a delete, attribute edit, text edit, rotation set, duplicate,     *)
(* group or ungroup invoked while the selection holds only ids that are   *)
(* not in the live tree leaves the live tree, the history and the index   *)
(* unchanged.                                                             *)
C29_AbsentIdsNoOp ==
    [][(/\ lastOp'.op \in ImmediateOps
        /\ svgTree # Null
        /\ selectedIds # <<>>
        /\ Range(selectedIds) \cap Range(Ids(svgTree)) = {})
       => /\ svgTree' = svgTree
          /\ history' = history
          /\ historyIndex' = historyIndex]_vars

(* C30: in every reachable state no id in the selection is the id of a    *)
(* text leaf of the live tree.                                            *)
C30_NoTextLeafSelected ==
    svgTree # Null
    => \A n \in Range(Nodes(svgTree)) : n.tag = TextTag => ~InSel(n.id)

(* C31: in every reachable live tree every text leaf has the sentinel tag, *)
(* an empty attribute mapping, no children and a defined text.             *)
C31_TextLeafShape ==
    svgTree # Null
    => \A n \in Range(Nodes(svgTree)) :
          n.tag = TextTag => n.attrs = <<>> /\ n.children = <<>> /\ n.text # <<>>

(* C32: updateMultipleNodes applies the callback to exactly the nodes     *)
(* whose id is in the set, at any depth and also to a node of the set     *)
(* nested in another node of the set: the result has the nodes of the     *)
(* input in the same order, each with its id, tag and children's ids; a   *)
(* node of the set carries what the callback writes (the attribute, or    *)
(* the text on itself when it is a text leaf and on its text-leaf         *)
(* children otherwise) and every other node keeps its attributes and its  *)
(* text. updateNode with an id that is absent returns a tree equal to the *)
(* input.                                                                 *)
C32_UpdateManyExact ==
    LET in == Nodes(fnIn.tree)
        out == Nodes(fnOut.value)
        m == fnIn.m
        ChildIds(n) == [k \in 1..Len(n.children) |-> n.children[k].id]
        SameShape(x, y) == y.id = x.id /\ y.tag = x.tag /\ ChildIds(y) = ChildIds(x)
    IN /\ (fnOut # Null /\ lastOp.op = "updateMultipleNodes")
          => /\ Len(out) = Len(in)
             /\ \A i \in 1..Len(in) :
                   LET x == in[i]
                       y == out[i]
                       hit == x.id \in fnIn.ids
                       par == findParent(fnIn.tree, x.id, Null)
                       textHit == /\ m.kind = "text"
                                  /\ x.tag = TextTag
                                  /\ (hit \/ (par # Null /\ par.id \in fnIn.ids))
                   IN /\ SameShape(x, y)
                      /\ IF hit /\ m.kind = "attr"
                         THEN /\ AttrHas(y.attrs, m.key)
                              /\ AttrGet(y.attrs, m.key) = m.value
                              /\ AttrDel(y.attrs, m.key) = AttrDel(x.attrs, m.key)
                         ELSE y.attrs = x.attrs
                      /\ y.text = IF textHit THEN <<m.value>> ELSE x.text
       /\ (fnOut # Null /\ lastOp.op = "updateNode" /\ fnIn.id \notin Range(Ids(fnIn.tree)))
          => /\ Len(out) = Len(in)
             /\ \A i \in 1..Len(in) :
                   /\ SameShape(in[i], out[i])
                   /\ out[i].attrs = in[i].attrs
                   /\ out[i].text = in[i].text

(* the callback has been applied to g1 and to t1 nested in it *)
C32_Witness ==
    /\ fnOut # Null
    /\ lastOp.op = "updateMultipleNodes"
    /\ fnIn.m.kind = "attr"
    /\ {"g1", "t1"} \subseteq fnIn.ids
    /\ \E i, j \in 1..Len(Nodes(fnOut.value)) :
          /\ Nodes(fnOut.value)[i].id = "g1"
          /\ Nodes(fnOut.value)[j].id = "t1"
          /\ AttrHas(Nodes(fnOut.value)[i].attrs, "opacity")
          /\ AttrHas(Nodes(fnOut.value)[j].attrs, "opacity")

(* C33: a delete that takes effect leaves exactly the nodes of the tree   *)
(* whose own id and whose ancestors' ids are outside the set of ids to    *)
(* delete (the selection without the root id), in their original order    *)
(* and each with its id, tag, attributes, text and remaining children;    *)
(* and no edit, undo or redo on a loaded document removes the root: the   *)
(* live tree stays present with the root id and tag it had.               *)
C33_RemoveManyKeepsRoot ==
    [][ svgTree # Null
        => /\ lastOp'.op # "import"
              => (svgTree' # Null /\ svgTree'.id = svgTree.id /\ svgTree'.tag = svgTree.tag)
           /\ (lastOp'.op = "delete" /\ lastOp'.eff)
              => LET ids == Range(selectedIds) \ {svgTree.id}
                     RECURSIVE Survivors(_)
                     Survivors(node) ==
                         IF node.id \in ids THEN <<>>
                         ELSE <<node>> \o Flatten([k \in 1..Len(node.children) |->
                                                      Survivors(node.children[k])])
                     ChildIds(n) == [k \in 1..Len(n.children) |-> n.children[k].id]
                     in == Survivors(svgTree)
                     out == Nodes(svgTree')
                 IN /\ Len(out) = Len(in)
                    /\ \A i \in 1..Len(in) :
                          /\ out[i].id = in[i].id
                          /\ out[i].tag = in[i].tag
                          /\ out[i].attrs = in[i].attrs
                          /\ out[i].text = in[i].text
                          /\ ChildIds(out[i])
                                = SelectSeq(ChildIds(in[i]), LAMBDA c : c \notin ids)
      ]_vars

(* a delete with a group and a node nested in it both selected *)
C33_Witness ==
    /\ lastOp.op = "delete"
    /\ lastOp.eff
    /\ svgTree # Null
    /\ Size(svgTree) = 1
    /\ Len(history) >= 2
    /\ Size(history[historyIndex]) = 4

(* C34: an attribute write changes only what it names. On every selected  *)
(* node, a write of a property other than fill and stroke leaves the      *)
(* style string and every other bare attribute as they were; a write of   *)
(* fill or stroke leaves every bare attribute other than that key and the *)
(* style as they were, and every key:value entry of the style string for  *)
(* another key is still in the style string with its key and its full     *)
(* value.                                                                 *)
C34_WriteOnlyNamed ==
    [][(lastOp'.op = "updateAttribute" /\ lastOp'.eff)
       => \A i \in 1..Len(Nodes(svgTree)) :
             LET old == Nodes(svgTree)[i]
                 new == Nodes(svgTree')[i]
                 key == lastOp'.a
                 oldParts == StyleParts(StyleOf(old.attrs))
                 newParts == StyleParts(StyleOf(new.attrs))
             IN old.id \in Range(selectedIds)
                => IF key \notin {"fill", "stroke"}
                   THEN /\ AttrDel(new.attrs, key) = AttrDel(old.attrs, key)
                        /\ StyleOf(new.attrs) = StyleOf(old.attrs)
                   ELSE /\ AttrDel(AttrDel(new.attrs, key), "style")
                              = AttrDel(AttrDel(old.attrs, key), "style")
                        /\ \A j \in 1..Len(oldParts) :
                              (/\ Len(oldParts[j]) >= 2
                               /\ oldParts[j][1] # ""
                               /\ oldParts[j][1] # key)
                              => \E k \in 1..Len(newParts) : newParts[k] = oldParts[j]
      ]_vars

C36_CursorInHistory ==
    /\ svgTree = Null => (history = <<>> /\ historyIndex = -1)
    /\ svgTree # Null => (Len(history) >= 1 /\ 0 <= historyIndex /\ historyIndex < Len(history))

(* the timer has committed after an immediate commit moved the index past *)
(* the one the timer was armed with                                       *)
C36_Witness ==
    /\ lastOp.op = "timer"
    /\ lastOp.eff
    /\ svgTree # Null
    /\ Len(history) = 2
    /\ historyIndex = 1
    /\ AttrHas(svgTree.attrs, "opacity")

(* C37: whenever a tree is loaded, no debounced snapshot is pending and   *)
(* no drag is in progress, the live tree serializes identically to the    *)
(* history snapshot at the current index.                                 *)
C37_QuiescentTreeIsSnapshot ==
    (svgTree # Null /\ ~timer.pending /\ dragState = Null)
    => serializeNode(svgTree) = serializeNode(history[historyIndex + 1])

(* C38: a release (mouse up or leaving the canvas) that ends a press on a *)
(* selected node with no movement beyond the threshold leaves the live    *)
(* tree unchanged, no node gaining or changing an attribute, and leaves   *)
(* the history and the index unchanged.                                   *)
C38_PressReleaseNoChange ==
    [][(/\ lastOp'.op \in {"mouseUp", "mouseLeave"}
        /\ dragState # Null
        /\ ~hasDraggedRef
        /\ svgTree # Null)
       => /\ Len(Nodes(svgTree')) = Len(Nodes(svgTree))
          /\ \A i \in 1..Len(Nodes(svgTree)) :
                /\ Nodes(svgTree')[i].id = Nodes(svgTree)[i].id
                /\ Nodes(svgTree')[i].tag = Nodes(svgTree)[i].tag
                /\ Nodes(svgTree')[i].attrs = Nodes(svgTree)[i].attrs
                /\ Nodes(svgTree')[i].text = Nodes(svgTree)[i].text
          /\ history' = history
          /\ historyIndex' = historyIndex
      ]_vars

(* C39 as stated: grouping a selected non-root node X and then ungrouping *)
(* the group restores the tree that was live before the grouping, leaves  *)
(* the selection exactly {X}, and each of the two operations makes the    *)
(* history one entry longer, two entries in all.                          *)
C39_GroupUngroupRestores ==
    [][/\ (lastOp'.op = "group" /\ lastOp'.eff) => Len(history') = Len(history) + 1
       /\ (/\ lastOp.op = "group" /\ lastOp.eff
           /\ lastOp'.op = "ungroup" /\ lastOp'.eff)
          => /\ svgTree' = history[historyIndex]
             /\ selectedIds' = <<lastOp.a>>
             /\ Len(history') = Len(history) + 1
      ]_vars

(* C39: grouping a selected non-root node X and then ungrouping the group *)
(* restores the tree that was live before the grouping and leaves the     *)
(* selection exactly {X}; each of the two operations stores one entry     *)
(* right after the index it found and moves the index onto it, so the     *)
(* index advances by two and the history ends at it (entries that an undo *)
(* left beyond the index are discarded by the grouping).                  *)
C39_GroupUngroupRestoresAtIndex ==
    [][/\ (lastOp'.op = "group" /\ lastOp'.eff)
          => (historyIndex' = historyIndex + 1 /\ Len(history') = historyIndex + 2)
       /\ (/\ lastOp.op = "group" /\ lastOp.eff
           /\ lastOp'.op = "ungroup" /\ lastOp'.eff)
          => /\ svgTree' = history[historyIndex]
             /\ selectedIds' = <<lastOp.a>>
             /\ historyIndex' = historyIndex + 1
             /\ Len(history') = historyIndex + 2
      ]_vars

(* r1, the first of two siblings, has been grouped and ungrouped *)
C39_Witness ==
    /\ lastOp.op = "ungroup"
    /\ lastOp.eff
    /\ lastOp.a = "group-1"
    /\ selectedIds = <<"r1">>
    /\ Len(history) = 3
    /\ historyIndex = 2
    /\ svgTree = history[1]
    /\ svgTree.children[1].id = "r1"
    /\ Len(svgTree.children) = 2

====
